---------------------------- MODULE Spec2Model ----------------------------
(***************************************************************************)
(* EquityPath AI: the market-data access layer (FinancialAPI and           *)
(* RealFinancialAPI), the OHLC synthesizers, the indicator-based           *)
(* prediction combinator, the remote-analysis wrappers, the Forecast,     *)
(* Index and Watchlist pages with their AssetSearch, and two prediction    *)
(* calls in flight, as state machines.                                     *)
(*                                                                         *)
(* Conventions.  Ticker symbols are sequences of one-character strings so  *)
(* that toUpperCase is computed.  Calendar dates are day numbers relative  *)
(* to the day of the call (today = 0, i days ago = -i).  The program      *)
(* computes in doubles, the model in integers at fixed scales: the         *)
(* synthesizers hold prices in pips (1/10000 dollar) and emit points in    *)
(* cents; the indicators take prices in cents and yield averages in        *)
(* millicents, Bollinger bands in decicents, RSI in hundredths and the     *)
(* volatility in 1/10000 percent.  Math.random() draws k/RandDen for k in  *)
(* 0..RandDen-1 (the half-open interval [0,1)).                            *)
(***************************************************************************)
EXTENDS Integers, Sequences, FiniteSets, TLC

VARIABLES
    \* ---- market-data access (searchAsset / getExtendedHistory) ----
    mdApi,          \* "none" | "fin" (FinancialAPI) | "real" (RealFinancialAPI)
    mdOp,           \* "none" | "search" | "history"
    mdInput,        \* the symbol string passed by the caller
    mdDays,         \* the days argument of getExtendedHistory
    mdPc,           \* "idle" | "timer" | "quote" | "historical" | "settled"
    mdRemoteCalls,  \* the remote (Yahoo) calls issued for this call, in order
    mdFailed,       \* a remote call of this search has failed
    mdSettle,       \* "pending" | "resolved" | "rejected"
    mdResult,       \* the value the promise settled with
    \* ---- remote analysis (ai-analysis) and the Forecast page ----
    aiImpl,         \* "invoke" (src/lib/ai-analysis.ts) | "fetch" (part_002)
    aiConfigured,   \* VITE_SUPABASE_URL and VITE_SUPABASE_ANON_KEY are set
    aiPred,         \* the getAIPricePredictions promise: [state, value]
    aiAnalysis,     \* the getAIMarketAnalysis promise: [state, value]
    asIsSearching,  \* AssetSearch: isSearching
    asError,        \* AssetSearch: error (shown in the alert), or "none"
    asSymbol,       \* AssetSearch: the symbol of the search in flight
    fcSelected,     \* Forecast: selectedAssetData (Null or an asset)
    fcTimeframe,    \* Forecast: selectedTimeframe
    fcIsLoading,    \* Forecast: isLoading
    fcIsAnalyzing,  \* Forecast: isAnalyzing
    fcPrediction,   \* Forecast: predictionData (Null or a record)
    fcToasts,       \* the kinds of toast shown so far
    fcPc,           \* handleGenerateForecast: "idle" | "awaiting" | "done"
    fcClosure,      \* the state handleGenerateForecast closed over
    \* ---- the OHLC synthesizers ----
    syPc,           \* "idle" | "loop" | "pushed" | "returned"
    syFn,           \* which synthesizer runs, or "none"
    sySymbol,       \* its symbol argument
    syDow,          \* new Date().getDay() on the day of the call
    syI,            \* the loop variable i
    syCurrentPrice, \* let currentPrice, in pips
    syCount,        \* historicalData.length
    syPoint,        \* the point pushed by the current iteration, or Null
    syResult,       \* "none" | "null" | "asset": what the call returned
    \* ---- generatePrediction (FinancialAPI and RealFinancialAPI) ----
    pdApi,          \* "none" | "fin" | "real"
    pdSymbol,       \* the symbol argument
    pdData,         \* the historicalData argument
    pdDays,         \* the timeframeDays argument
    pdPc,           \* "idle" | "timer" | "settled" | "threw"
    pdSettle,       \* "pending" | "resolved" | "rejected"
    pdResult,       \* the value the promise settled with
    \* ---- the indicator functions, called on an array ----
    ixFn,           \* "none" | "rsi" | "ema" | "sma" | "macd" | ...
    ixPrices,       \* the array passed as the prices (or series) argument
    ixPeriod,       \* the period or horizon argument (0 if there is none)
    ixGiven,        \* the content of the array when the caller built it
    ixResults,      \* the values returned by the evaluations so far
    \* ---- two generatePrediction calls in flight ----
    ccHeap,         \* the callers' arrays, by reference
    ccCalls,        \* the two calls: closure, promise and timer of each
    \* ---- the Watchlist page ----
    wlPc,           \* "unmounted" | "mounting" | "mounted"
    wlStorage,      \* localStorage under STORAGE_KEY: Absent or a blob
    wlWatchlist,    \* Watchlist: watchlist
    wlQueued,       \* the list the load effect gave to setWatchlist
    wlIsAddingAsset, \* Watchlist: isAddingAsset
    wlIsRefreshing, \* Watchlist: isRefreshing
    wlIsLoading,    \* Watchlist: isLoading
    wlSearch,       \* the search in flight: symbol and onSearch closure
    wlRefresh,      \* the refresh in flight: the watchlist of its closure
    wlLast,         \* the last change of the list: what it started from
    \* ---- the Index page ----
    idxSelected,    \* Index: selectedAssetData (Null or an asset)
    idxIsLoading,   \* Index: isLoading
    idxPrediction,  \* Index: predictionData (Null or a record)
    idxIsGenerating, \* Index: isGeneratingPrediction
    idxSearch,      \* the search in flight: symbol and onSearch closure
    idxError,       \* AssetSearch: error, or "none"
    idxTimers,      \* the 500 ms timers armed: the closure of each
    idxCalls,       \* the generatePrediction calls awaited: asset and days
    idxToasts,      \* the kinds of toast shown so far
    \* ---- the edge functions (ai-market-analysis, ai-price-prediction) ----
    efFn,           \* "none" | "analysis" | "prediction"
    efPc,           \* "idle" | "received" | "fetching" | "responded" | "replied"
    efRequest,      \* the request: method and body
    efUpstream,     \* what the completions endpoint answered, or "none"
    efReply         \* the Response returned, or Null

mdVars == <<mdApi, mdOp, mdInput, mdDays, mdPc, mdRemoteCalls, mdFailed,
            mdSettle, mdResult>>

aiVars == <<aiImpl, aiConfigured, aiPred, aiAnalysis>>

fcVars == <<asIsSearching, asError, asSymbol, fcSelected, fcTimeframe,
            fcIsLoading, fcIsAnalyzing, fcPrediction, fcToasts, fcPc,
            fcClosure>>

syVars == <<syPc, syFn, sySymbol, syDow, syI, syCurrentPrice, syCount,
            syPoint, syResult>>

pdVars == <<pdApi, pdSymbol, pdData, pdDays, pdPc, pdSettle, pdResult>>

ixVars == <<ixFn, ixPrices, ixPeriod, ixGiven, ixResults>>

ccVars == <<ccHeap, ccCalls>>

wlVars == <<wlPc, wlStorage, wlWatchlist, wlQueued,
            wlIsAddingAsset, wlIsRefreshing, wlIsLoading, wlSearch,
            wlRefresh, wlLast>>

idxVars == <<idxSelected, idxIsLoading, idxPrediction, idxIsGenerating,
             idxSearch, idxError, idxTimers, idxCalls, idxToasts>>

efVars == <<efFn, efPc, efRequest, efUpstream, efReply>>

vars == <<mdVars, aiVars, fcVars, syVars, pdVars, ixVars, ccVars, wlVars,
          idxVars, efVars>>

\* What the actions of one part leave alone: the variables of the others.
mdOthers == <<aiVars, fcVars, syVars, pdVars, ixVars, ccVars, wlVars,
             idxVars,
             efVars>>
fcOthers == <<mdVars, syVars, pdVars, ixVars, ccVars, wlVars,
             idxVars,
             efVars>>
syOthers == <<mdVars, aiVars, fcVars, pdVars, ixVars, ccVars, wlVars,
             idxVars,
             efVars>>
pdOthers == <<mdVars, aiVars, fcVars, syVars, ixVars, ccVars, wlVars,
             idxVars,
             efVars>>
ixOthers == <<mdVars, aiVars, fcVars, syVars, pdVars, ccVars, wlVars,
             idxVars,
             efVars>>
ccOthers == <<mdVars, aiVars, fcVars, syVars, pdVars, ixVars, wlVars,
             idxVars,
             efVars>>
wlOthers == <<mdVars, aiVars, fcVars, syVars, pdVars, ixVars, ccVars,
             idxVars,
             efVars>>
idxOthers == <<mdVars, aiVars, fcVars, syVars, pdVars, ixVars, ccVars,
              wlVars,
             efVars>>

-----------------------------------------------------------------------------
\* Bounds of the model.
MaxDays == 4            \* getExtendedHistory is called with days in 1..MaxDays
MaxRemoteRows == 3      \* a successful Yahoo history has 1..MaxRemoteRows rows
RandDen == 3            \* Math.random() draws k / RandDen, k in 0..RandDen-1
SynthSteps == 2         \* loop iterations of a synthesizer that are explored
PriceCap == 500000000   \* |currentPrice| (pips) up to which a loop is explored
ChangeCap == 2000000    \* |daily change| (ppm) up to which a loop is explored
MaxHorizon == 7         \* generatePrediction is called with 1..MaxHorizon days
MaxSmallLen == 4        \* every price array of 1..MaxSmallLen small prices
MaxSmallPeriod == 3     \* with every period in 1..MaxSmallPeriod

-----------------------------------------------------------------------------
\* Strings and String.prototype.toUpperCase.

UpperChar(c) ==
    CASE c = "a" -> "A" [] c = "p" -> "P" [] c = "l" -> "L"
      [] c = "t" -> "T" [] c = "s" -> "S" [] c = "m" -> "M"
      [] c = "f" -> "F" [] c = "z" -> "Z" [] c = "g" -> "G"
      [] c = "o" -> "O" [] c = "y" -> "Y"
      [] OTHER -> c

toUpperCase(s) == [k \in 1..Len(s) |-> UpperChar(s[k])]

AAPL == <<"A", "A", "P", "L">>
TSLA == <<"T", "S", "L", "A">>
GOOGL == <<"G", "O", "O", "G", "L">>
MSFT == <<"M", "S", "F", "T">>
AMZN == <<"A", "M", "Z", "N">>
NVDA == <<"N", "V", "D", "A">>
SPY == <<"S", "P", "Y">>
QQQ == <<"Q", "Q", "Q">>
META == <<"M", "E", "T", "A">>
BTC_USD == <<"B", "T", "C", "-", "U", "S", "D">>
ETH_USD == <<"E", "T", "H", "-", "U", "S", "D">>

\* String.prototype.includes
Includes(s, sub) ==
    \E k \in 1..(Len(s) - Len(sub) + 1) :
        SubSeq(s, k, k + Len(sub) - 1) = sub

\* The symbol strings callers pass: known and unknown tickers, in upper,
\* lower and mixed case.
SymbolInputs ==
    { AAPL, <<"a", "a", "p", "l">>, <<"T", "s", "l", "a">>, GOOGL,
      MSFT, <<"m", "s", "f", "t">>, SPY, <<"s", "p", "y">>,
      <<"Z", "Z", "Z", "Z">>, <<"z", "z">> }

-----------------------------------------------------------------------------
\* Numbers.  The program computes in IEEE doubles; the model computes in
\* integers at fixed scales, within 32 bits: prices in pips (1/10000 of a
\* dollar), relative changes and factors in ppm (1/1000000).

Abs(x) == IF x < 0 THEN 0 - x ELSE x
Min(a, b) == IF a <= b THEN a ELSE b
Max(a, b) == IF a >= b THEN a ELSE b

\* a / b, rounded toward zero.
Trunc(a, b) == IF a >= 0 THEN a \div b ELSE 0 - ((0 - a) \div b)

\* The values of Math.random(): Draws / RandDen, in [0, 1).
Draws == 0..(RandDen - 1)

\* a * x for a fraction x >= 0 in ppm, computed in pieces that stay within
\* 32 bits.
MulPpm(a, x) ==
    LET q == a \div 1000
        r == a % 1000
        xq == x \div 1000
        xr == x % 1000
    IN  q * xq + (q * xr) \div 1000 + (r * xq) \div 1000
          + (r * xr) \div 1000000

\* a * (1 + x) for a signed fraction x in ppm.
Scale(a, x) == IF x >= 0 THEN a + MulPpm(a, x) ELSE a - MulPpm(a, 0 - x)

\* Number(x.toFixed(2)) of a price in pips: the nearest cent.
toFixed2(x) == IF x >= 0 THEN (x + 50) \div 100
               ELSE 0 - ((50 - x) \div 100)

\* 1000 * Math.sin(i / 30) for i in 0..94 (an angle within [0, pi]), by
\* Bhaskara's formula 16 x (pi - x) / (5 pi^2 - 4 x (pi - x)), with x and
\* pi in units of 1/3000.
SinMilli(i) ==
    LET t == (100 * i) * (9425 - 100 * i)
    IN  (16 * t) \div ((5 * 9425 * 9425 - 4 * t) \div 1000)

-----------------------------------------------------------------------------
\* The built-in tables.

\* financial-api.ts ASSET_DATABASE / BASE_PRICES (same key set).
ASSET_DATABASE ==
    {AAPL, TSLA, GOOGL, MSFT, AMZN, BTC_USD, ETH_USD, SPY, QQQ, NVDA}

\* real-financial-api.ts getRealtimeMarketData: const companies.
RealtimeCompanies == {AAPL, TSLA, GOOGL}

\* real-financial-api.ts getAssetVolatilityProfile: const profiles.
VolatilityProfiles == {AAPL, TSLA, GOOGL, MSFT, NVDA, BTC_USD, ETH_USD}

\* getAssetVolatilityProfile: profiles[symbol] || profiles['AAPL'].
getAssetVolatilityProfile(symbol) ==
    IF symbol \in VolatilityProfiles THEN symbol ELSE AAPL

Null == [tag |-> "null"]

\* A PriceDataPoint[] value delivered to a caller.
Series(points) == [tag |-> "series", points |-> points]

-----------------------------------------------------------------------------
\* The synthesizers, as far as the shape of the series goes: which points
\* are generated, for which dates and in which order.  (The numeric fields
\* of a point are modelled by the OHLC part of this module.)

\* for (let i = from; i >= 0; i--) { ...; data.push({date: today - i}) }:
\* the k-th iteration runs with i = from - (k - 1), for as long as i >= 0.
LoopDates(from) ==
    [k \in 1..(from + 1) |-> [date |-> 0 - (from - (k - 1))]]

\* Array.prototype.sort((a, b) => date(a) - date(b)): a stable insertion.
RECURSIVE InsertByDate(_, _)
InsertByDate(sorted, p) ==
    IF sorted = <<>> THEN <<p>>
    ELSE IF sorted[Len(sorted)].date <= p.date THEN Append(sorted, p)
    ELSE Append(InsertByDate(SubSeq(sorted, 1, Len(sorted) - 1), p),
                sorted[Len(sorted)])

RECURSIVE SortByDate(_)
SortByDate(s) ==
    IF s = <<>> THEN <<>>
    ELSE InsertByDate(SortByDate(SubSeq(s, 1, Len(s) - 1)), s[Len(s)])

\* financial-api.ts generateHistoricalData(symbol, days): BASE_PRICES[symbol]
\* || 100 selects the base price, so every symbol yields a series.
generateHistoricalData(symbol, days) ==
    SortByDate(LoopDates(days))

\* The loop bound of getRealtimeMarketData: for (let i = 90; i >= 0; i--).
RealtimeHistoryDays == 90

\* real-financial-api.ts getRealtimeMarketData(symbol).
getRealtimeMarketData(symbol) ==
    IF symbol \notin RealtimeCompanies THEN Null
    ELSE [tag |-> "asset", symbol |-> symbol, origin |-> "synth",
          profile |-> getAssetVolatilityProfile(symbol),
          historicalData |-> LoopDates(RealtimeHistoryDays)]


-----------------------------------------------------------------------------
\* Market-data access: FinancialAPI (financial-api.ts) and RealFinancialAPI
\* (real-financial-api.ts).

MdIdle ==
    /\ mdApi = "none" /\ mdOp = "none" /\ mdInput = <<>> /\ mdDays = 0
    /\ mdPc = "idle" /\ mdRemoteCalls = <<>> /\ mdFailed = FALSE
    /\ mdSettle = "pending" /\ mdResult = Null

\* FinancialAPI.searchAsset(symbol): new Promise + setTimeout.
FinSearchAsset(input) ==
    /\ UNCHANGED mdOthers
    /\ mdPc = "idle"
    /\ mdApi' = "fin" /\ mdOp' = "search" /\ mdInput' = input /\ mdDays' = 0
    /\ mdPc' = "timer"
    /\ UNCHANGED <<mdRemoteCalls, mdFailed, mdSettle, mdResult>>

\* FinancialAPI.getExtendedHistory(symbol, days): new Promise + setTimeout.
FinGetExtendedHistory(input, days) ==
    /\ UNCHANGED mdOthers
    /\ mdPc = "idle"
    /\ mdApi' = "fin" /\ mdOp' = "history" /\ mdInput' = input
    /\ mdDays' = days
    /\ mdPc' = "timer"
    /\ UNCHANGED <<mdRemoteCalls, mdFailed, mdSettle, mdResult>>

\* A searchAsset that looks the symbol up as typed.
FinSearchResultNoUpper(input) ==
    IF input \notin ASSET_DATABASE THEN Null
    ELSE [tag |-> "asset", symbol |-> input, origin |-> "synth",
          profile |-> input,
          historicalData |-> generateHistoricalData(input, 30)]

\* The body of FinancialAPI.searchAsset's timer callback.
FinSearchResult(input) ==
    LET upperSymbol == toUpperCase(input) IN
    IF upperSymbol \notin ASSET_DATABASE THEN Null
    ELSE [tag |-> "asset", symbol |-> upperSymbol, origin |-> "synth",
          profile |-> upperSymbol,
          historicalData |-> generateHistoricalData(upperSymbol, 30)]

\* The timer of a FinancialAPI call fires: the callback resolves the promise.
FinTimerFires ==
    /\ UNCHANGED mdOthers
    /\ mdApi = "fin" /\ mdPc = "timer"
    /\ mdResult' = IF mdOp = "search" THEN FinSearchResult(mdInput)
                   ELSE Series(generateHistoricalData(mdInput, mdDays))
    /\ mdSettle' = "resolved"
    /\ mdPc' = "settled"
    /\ UNCHANGED <<mdApi, mdOp, mdInput, mdDays, mdRemoteCalls, mdFailed>>

\* RealFinancialAPI.searchAsset(symbol): fetchRealMarketData(upper) starts
\* with yahooFinance.quote.
RealSearchAsset(input) ==
    /\ UNCHANGED mdOthers
    /\ mdPc = "idle"
    /\ mdApi' = "real" /\ mdOp' = "search" /\ mdInput' = input /\ mdDays' = 0
    /\ mdPc' = "quote"
    /\ mdRemoteCalls' = <<"quote">>
    /\ UNCHANGED <<mdFailed, mdSettle, mdResult>>

\* RealFinancialAPI.getExtendedHistory(symbol, days): this.searchAsset(symbol).
RealGetExtendedHistory(input, days) ==
    /\ UNCHANGED mdOthers
    /\ mdPc = "idle"
    /\ mdApi' = "real" /\ mdOp' = "history" /\ mdInput' = input
    /\ mdDays' = days
    /\ mdPc' = "quote"
    /\ mdRemoteCalls' = <<"quote">>
    /\ UNCHANGED <<mdFailed, mdSettle, mdResult>>

\* What the caller of RealFinancialAPI receives once fetchRealMarketData has
\* returned data: searchAsset returns it, getExtendedHistory returns
\* data?.historicalData || [].
RealDeliver(op, data) ==
    IF op = "search" THEN data
    ELSE IF data = Null THEN Series(<<>>) ELSE Series(data.historicalData)

\* fetchRealMarketData falls back: return getRealtimeMarketData(symbol).
RealFallback ==
    /\ mdFailed' = TRUE
    /\ mdResult' = RealDeliver(mdOp, getRealtimeMarketData(toUpperCase(mdInput)))
    /\ mdSettle' = "resolved"
    /\ mdPc' = "settled"
    /\ UNCHANGED <<mdApi, mdOp, mdInput, mdDays, mdRemoteCalls>>

\* A fetchRealMarketData that asks for the quote again when it fails.
QuoteSettlesRetry(outcome) ==
    /\ UNCHANGED mdOthers
    /\ mdApi = "real" /\ mdPc = "quote"
    /\ IF outcome \in {"throws", "none"}
       THEN /\ mdFailed' = TRUE
            /\ mdRemoteCalls' = Append(mdRemoteCalls, "quote")
            /\ UNCHANGED <<mdApi, mdOp, mdInput, mdDays, mdPc, mdSettle,
                           mdResult>>
       ELSE /\ mdPc' = "historical"
            /\ mdRemoteCalls' = Append(mdRemoteCalls, "historical")
            /\ UNCHANGED <<mdApi, mdOp, mdInput, mdDays, mdFailed, mdSettle,
                           mdResult>>

\* await yahooFinance.quote(...) settles: it throws, yields no quote, or
\* yields a quote (then yahooFinance.historical is called).
QuoteSettles(outcome) ==
    /\ UNCHANGED mdOthers
    /\ mdApi = "real" /\ mdPc = "quote"
    /\ IF outcome \in {"throws", "none"}
       THEN RealFallback
       ELSE /\ mdPc' = "historical"
            /\ mdRemoteCalls' = Append(mdRemoteCalls, "historical")
            /\ UNCHANGED <<mdApi, mdOp, mdInput, mdDays, mdFailed, mdSettle,
                           mdResult>>

\* await yahooFinance.historical(...) settles: it throws, yields nothing,
\* yields rows the transformation throws on (no date), or yields n rows.
HistoricalSettles(outcome, n) ==
    /\ UNCHANGED mdOthers
    /\ mdApi = "real" /\ mdPc = "historical"
    /\ IF outcome \in {"throws", "empty", "malformed"}
       THEN RealFallback
       ELSE /\ mdResult' = RealDeliver(mdOp,
                  [tag |-> "asset", symbol |-> toUpperCase(mdInput),
                   origin |-> "yahoo", profile |-> <<>>,
                   historicalData |-> LoopDates(n - 1)])
            /\ mdSettle' = "resolved"
            /\ mdPc' = "settled"
            /\ UNCHANGED <<mdApi, mdOp, mdInput, mdDays, mdRemoteCalls,
                           mdFailed>>

\* The caller has consumed the settled promise; another call can be made.
MdReturn ==
    /\ UNCHANGED mdOthers
    /\ mdPc = "settled"
    /\ mdApi' = "none" /\ mdOp' = "none" /\ mdInput' = <<>> /\ mdDays' = 0
    /\ mdPc' = "idle" /\ mdRemoteCalls' = <<>> /\ mdFailed' = FALSE
    /\ mdSettle' = "pending" /\ mdResult' = Null

QuoteOutcomes == {"throws", "none", "ok"}
HistoricalOutcomes == {"throws", "empty", "malformed", "ok"}

MdStep ==
    \/ \E input \in SymbolInputs : FinSearchAsset(input)
    \/ \E input \in SymbolInputs, days \in 1..MaxDays :
           FinGetExtendedHistory(input, days)
    \/ FinTimerFires
    \/ \E input \in SymbolInputs : RealSearchAsset(input)
    \/ \E input \in SymbolInputs, days \in 1..MaxDays :
           RealGetExtendedHistory(input, days)
    \/ \E outcome \in QuoteOutcomes : QuoteSettles(outcome)
    \/ \E outcome \in HistoricalOutcomes, n \in 1..MaxRemoteRows :
           HistoricalSettles(outcome, n)
    \/ MdReturn



-----------------------------------------------------------------------------
\* Remote analysis: getAIPricePredictions and getAIMarketAnalysis, in the
\* revision that calls supabase.functions.invoke (src/lib/ai-analysis.ts) and
\* in the revision that calls fetch (part_002).
\*
\* What the remote call can do:
\*   "throws"      the request throws (network error)
\*   "non2xx"      a response with a non-success status
\*   "unparsable"  a success status whose JSON body does not parse
\*   "textBody"    a success status with a body that is not JSON at all
\*   "jsonNull"    the body is the JSON value null
\*   "noField"     a JSON object without the predictions / analysis field
\*   "fieldNull"   the field is null
\*   then the shapes of the field itself.
PredOutcomes ==
    {"throws", "non2xx", "unparsable", "textBody", "jsonNull", "noField",
     "fieldNull", "noShortTerm", "emptyShortTerm", "incompleteEntry",
     "wellFormed"}

AnalysisOutcomes ==
    {"throws", "non2xx", "unparsable", "textBody", "jsonNull", "noField",
     "fieldNull", "incomplete", "wellFormed"}

Undefined == [kind |-> "undefined"]
JsNull == [kind |-> "null"]

\* The predictions field of a response body, by shape.  shortTerm and
\* mediumTerm are the lengths of the arrays, -1 when the property is absent.
RemotePredictions(outcome) ==
    CASE outcome = "fieldNull" -> JsNull
      [] outcome = "noShortTerm" ->
            [kind |-> "object", source |-> "remote", shortTerm |-> -1,
             firstEntry |-> "none", mediumTerm |-> -1, basePrice |-> "none"]
      [] outcome = "emptyShortTerm" ->
            [kind |-> "object", source |-> "remote", shortTerm |-> 0,
             firstEntry |-> "none", mediumTerm |-> 0, basePrice |-> "none"]
      [] outcome = "incompleteEntry" ->
            [kind |-> "object", source |-> "remote", shortTerm |-> 7,
             firstEntry |-> "incomplete", mediumTerm |-> 4,
             basePrice |-> "none"]
      [] outcome = "wellFormed" ->
            [kind |-> "object", source |-> "remote", shortTerm |-> 7,
             firstEntry |-> "complete", mediumTerm |-> 4,
             basePrice |-> "none"]
      [] OTHER -> Undefined

\* The analysis field of a response body, by shape: fields is the number of
\* the seven AIAnalysis fields that are defined.
RemoteAnalysis(outcome) ==
    CASE outcome = "fieldNull" -> JsNull
      [] outcome = "incomplete" ->
            [kind |-> "object", source |-> "remote", fields |-> 0]
      [] outcome = "wellFormed" ->
            [kind |-> "object", source |-> "remote", fields |-> 7]
      [] OTHER -> Undefined

\* The try block reaches "return data.<field>": the call did not fail and
\* data is an object (or, with invoke, a text body: a property read of a
\* string yields undefined).
ReachesReturn(impl, configured, outcome) ==
    IF impl = "invoke"
    THEN outcome \notin {"throws", "non2xx", "unparsable", "jsonNull"}
    ELSE /\ configured
         /\ outcome \notin {"throws", "non2xx", "unparsable", "textBody",
                            "jsonNull"}

\* historicalData[historicalData.length - 1]?.close
LastClose(historicalData) ==
    IF historicalData = <<>> THEN "undefined"
    ELSE IF "close" \in DOMAIN historicalData[Len(historicalData)]
         THEN "close" ELSE "undefined"

\* The catch block of getAIPricePredictions: 7 shortTerm and 4 mediumTerm
\* entries around basePrice.
FallbackPredictions(impl, historicalData) ==
    [kind |-> "object", source |-> "fallback", shortTerm |-> 7,
     firstEntry |-> "complete", mediumTerm |-> 4,
     basePrice |->
        IF LastClose(historicalData) # "undefined" THEN "lastClose"
        ELSE IF impl = "fetch" THEN "marketContext.currentPrice"
        ELSE "100"]

\* The catch block of getAIMarketAnalysis: all seven fields.
FallbackAnalysis == [kind |-> "object", source |-> "fallback", fields |-> 7]

\* getAIPricePredictions(symbol, historicalData, marketContext), given what
\* the remote call does: how the promise settles.
getAIPricePredictions(impl, configured, outcome, historicalData) ==
    IF ReachesReturn(impl, configured, outcome)
    THEN [state |-> "resolved", value |-> RemotePredictions(outcome)]
    ELSE [state |-> "resolved",
          value |-> FallbackPredictions(impl, historicalData)]

\* getAIMarketAnalysis(symbol, currentPrice, priceHistory, marketData).
getAIMarketAnalysis(impl, configured, outcome) ==
    IF ReachesReturn(impl, configured, outcome)
    THEN [state |-> "resolved", value |-> RemoteAnalysis(outcome)]
    ELSE [state |-> "resolved", value |-> FallbackAnalysis]

\* A promise variable: how it settled, with what, and (for the claims) what
\* the remote call did.
NotCalled == [state |-> "none", value |-> Undefined, outcome |-> "none"]
Pending == [state |-> "pending", value |-> Undefined, outcome |-> "none"]

Settled(promise, outcome) ==
    [state |-> promise.state, value |-> promise.value, outcome |-> outcome]

-----------------------------------------------------------------------------
\* The AssetSearch component (asset-search.tsx) on the Forecast page
\* (Forecast.tsx).

Timeframes == {"1d", "2d", "3d", "7d"}

\* timeframeOptions.find(t => t.value === selectedTimeframe)?.days || 3
DaysOf(tf) ==
    CASE tf = "1d" -> 1 [] tf = "2d" -> 2 [] tf = "3d" -> 3 [] tf = "7d" -> 7
      [] OTHER -> 3

\* toast.success(...) in handleAssetSearch and handleGenerateForecast.
SuccessToasts == {"success:loaded", "success:local", "success:chatgpt"}

FcIdle ==
    /\ asIsSearching = FALSE /\ asError = "none" /\ asSymbol = <<>>
    /\ fcSelected = Null /\ fcTimeframe = "3d"
    /\ fcIsLoading = FALSE /\ fcIsAnalyzing = FALSE
    /\ fcPrediction = Null /\ fcToasts = {}
    /\ fcPc = "idle" /\ fcClosure = Null
    /\ aiPred = NotCalled /\ aiAnalysis = NotCalled

\* performSearch(symbol) up to its await: setError(null),
\* setIsSearching(true), onSearchStart() = Forecast.handleSearchStart.  The
\* input and the buttons that start it are disabled while isLoading or
\* isSearching.
AsPerformSearch(symbol) ==
    /\ UNCHANGED fcOthers
    /\ ~(fcIsLoading \/ asIsSearching)
    /\ asError' = "none"
    /\ asIsSearching' = TRUE
    /\ asSymbol' = symbol
    /\ fcIsLoading' = TRUE
    /\ fcSelected' = Null
    /\ fcPrediction' = Null
    /\ UNCHANGED <<fcTimeframe, fcIsAnalyzing, fcToasts, fcPc, fcClosure,
                   aiVars>>

\* performSearch after await FinancialAPI.searchAsset(symbol): not found
\* sets the error; found calls onSearch = Forecast.handleAssetSearch;
\* finally setIsSearching(false).
AsSearchSettles ==
    /\ UNCHANGED fcOthers
    /\ asIsSearching
    /\ LET assetData == FinSearchResult(asSymbol) IN
       IF assetData = Null
       THEN /\ asError' = "notFound"
            /\ UNCHANGED <<fcSelected, fcPrediction, fcToasts>>
       ELSE /\ fcSelected' = assetData
            /\ fcPrediction' = Null
            /\ fcToasts' = fcToasts \cup {"success:loaded"}
            /\ UNCHANGED asError
    /\ asIsSearching' = FALSE
    /\ asSymbol' = <<>>
    /\ UNCHANGED <<fcTimeframe, fcIsLoading, fcIsAnalyzing, fcPc, fcClosure,
                   aiVars>>

\* onClick={() => setSelectedTimeframe(option.value)}
FcSelectTimeframe(tf) ==
    /\ UNCHANGED fcOthers
    /\ fcSelected # Null
    /\ fcTimeframe # tf
    /\ fcTimeframe' = tf
    /\ UNCHANGED <<asIsSearching, asError, asSymbol, fcSelected, fcIsLoading,
                   fcIsAnalyzing, fcPrediction, fcToasts, fcPc, fcClosure,
                   aiVars>>

\* handleGenerateForecast up to its await: it returns at once without a
\* selected asset; the button that calls it is disabled while isAnalyzing.
\* Both remote-analysis calls are started (Promise.all).  The handler is
\* taken as callable whenever an asset is selected.
HandleGenerateForecast ==
    /\ UNCHANGED fcOthers
    /\ fcSelected # Null
    /\ ~fcIsAnalyzing
    /\ fcIsAnalyzing' = TRUE
    /\ fcPrediction' = Null
    /\ fcClosure' = [asset |-> fcSelected, timeframe |-> fcTimeframe]
    /\ aiPred' = Pending
    /\ aiAnalysis' = Pending
    /\ fcPc' = "awaiting"
    /\ UNCHANGED <<asIsSearching, asError, asSymbol, fcSelected, fcTimeframe,
                   fcIsLoading, fcToasts, aiImpl, aiConfigured>>

\* The getAIPricePredictions promise settles.
AiPredSettles(outcome) ==
    /\ UNCHANGED fcOthers
    /\ aiPred.state = "pending"
    /\ aiPred' = Settled(getAIPricePredictions(aiImpl, aiConfigured, outcome,
                                 fcClosure.asset.historicalData), outcome)
    /\ UNCHANGED <<aiImpl, aiConfigured, aiAnalysis, fcVars>>

\* The getAIMarketAnalysis promise settles.
AiAnalysisSettles(outcome) ==
    /\ UNCHANGED fcOthers
    /\ aiAnalysis.state = "pending"
    /\ aiAnalysis' = Settled(getAIMarketAnalysis(aiImpl, aiConfigured,
                                                  outcome), outcome)
    /\ UNCHANGED <<aiImpl, aiConfigured, aiPred, fcVars>>

\* The statements of the try block after the await throw a TypeError:
\* aiPrediction.shortTerm[0] on undefined, null or an object without
\* shortTerm; aiAnalysis.technicalAnalysis on undefined or null.
TryThrows(pred, analysis) ==
    \/ pred.state = "rejected" \/ analysis.state = "rejected"
    \/ pred.value.kind # "object"
    \/ pred.value.shortTerm = -1
    \/ analysis.value.kind # "object"

\* The catch block of handleGenerateForecast: a record built from
\* generatePredictionData, and a success toast.
CatchOutcome(closure) ==
    [prediction |->
        [symbol |-> closure.asset.symbol,
         currentPrice |-> "asset.currentPrice",
         predictedPrice |-> "generatePredictionData",
         timeframe |-> DaysOf(closure.timeframe),
         confidence |-> "generatePredictionData",
         trend |-> "generatePredictionData",
         changePercent |-> "generatePredictionData",
         explanation |-> "canned"],
     toast |-> "success:local"]

\* The try block of handleGenerateForecast after the await, when nothing
\* throws: aiPrediction.shortTerm[0]?.predictedPrice || local random,
\* aiPrediction.shortTerm[0]?.confidence || 75, and the two analysis texts.
TryOutcome(pred, analysis, closure) ==
    [prediction |->
        [symbol |-> closure.asset.symbol,
         currentPrice |-> "asset.currentPrice",
         predictedPrice |->
            IF pred.value.firstEntry = "complete"
            THEN pred.value.source ELSE "localRandom",
         timeframe |-> DaysOf(closure.timeframe),
         confidence |->
            IF pred.value.firstEntry = "complete"
            THEN pred.value.source ELSE "75",
         trend |-> "fromChangePercent",
         changePercent |-> "fromPrices",
         explanation |->
            IF analysis.value.fields = 7
            THEN analysis.value.source ELSE "undefined undefined"],
     toast |-> "success:chatgpt"]

\* A handleGenerateForecast without its catch block: the TypeError escapes,
\* nothing is set and an error is reported.
ForecastOutcomeNoCatch(pred, analysis, closure) ==
    IF TryThrows(pred, analysis)
    THEN [prediction |-> Null, toast |-> "error:forecast"]
    ELSE TryOutcome(pred, analysis, closure)

\* handleGenerateForecast after the await: the record given to
\* setPredictionData and the toast, from the try block or, when that throws,
\* from the catch block.
ForecastOutcome(pred, analysis, closure) ==
    IF TryThrows(pred, analysis)
    THEN CatchOutcome(closure)
    ELSE TryOutcome(pred, analysis, closure)

\* Promise.all has settled: the rest of handleGenerateForecast runs,
\* including finally { setIsAnalyzing(false) }.
ForecastContinues ==
    /\ UNCHANGED fcOthers
    /\ fcPc = "awaiting"
    /\ aiPred.state \in {"resolved", "rejected"}
    /\ aiAnalysis.state \in {"resolved", "rejected"}
    /\ LET out == ForecastOutcome(aiPred, aiAnalysis, fcClosure) IN
       /\ fcPrediction' = out.prediction
       /\ fcToasts' = fcToasts \cup {out.toast}
    /\ fcIsAnalyzing' = FALSE
    /\ fcPc' = "done"
    /\ UNCHANGED <<asIsSearching, asError, asSymbol, fcSelected, fcTimeframe,
                   fcIsLoading, fcClosure, aiVars>>

FcStep ==
    \/ \E input \in SymbolInputs : AsPerformSearch(toUpperCase(input))
    \/ AsSearchSettles
    \/ \E tf \in Timeframes : FcSelectTimeframe(tf)
    \/ HandleGenerateForecast
    \/ \E outcome \in PredOutcomes : AiPredSettles(outcome)
    \/ \E outcome \in AnalysisOutcomes : AiAnalysisSettles(outcome)
    \/ ForecastContinues

-----------------------------------------------------------------------------
\* The OHLC synthesizers: the loop bodies of getRealtimeMarketData and
\* generateFallbackData (real-financial-api.ts) and of
\* generateRealisticMarketData (financial-api.ts).  Each iteration draws
\* Math.random() four times: for the daily change, the high, the low and
\* the volume.

USD == <<"-", "U", "S", "D">>

\* getAssetVolatilityProfile: const profiles (fractions in ppm).
Profiles(key) ==
    CASE key = AAPL ->
           [baseVolatility |-> 22000, trendStrength |-> 3000,
            meanReversion |-> 2000, intradayRange |-> 15000,
            mondayEffect |-> 1000, monthEndEffect |-> -1000,
            baseVolume |-> 85000000]
      [] key = TSLA ->
           [baseVolatility |-> 52000, trendStrength |-> 12000,
            meanReversion |-> 2000, intradayRange |-> 45000,
            mondayEffect |-> 4000, monthEndEffect |-> 3000,
            baseVolume |-> 95000000]
      [] key = GOOGL ->
           [baseVolatility |-> 25000, trendStrength |-> 4000,
            meanReversion |-> 2000, intradayRange |-> 18000,
            mondayEffect |-> 1000, monthEndEffect |-> -1000,
            baseVolume |-> 45000000]
      [] key = MSFT ->
           [baseVolatility |-> 20000, trendStrength |-> 3000,
            meanReversion |-> 2000, intradayRange |-> 12000,
            mondayEffect |-> 1000, monthEndEffect |-> 0,
            baseVolume |-> 55000000]
      [] key = NVDA ->
           [baseVolatility |-> 38000, trendStrength |-> 7000,
            meanReversion |-> 3000, intradayRange |-> 28000,
            mondayEffect |-> 2000, monthEndEffect |-> 1000,
            baseVolume |-> 75000000]
      [] key = BTC_USD ->
           [baseVolatility |-> 55000, trendStrength |-> 10000,
            meanReversion |-> 1000, intradayRange |-> 40000,
            mondayEffect |-> 5000, monthEndEffect |-> 3000,
            baseVolume |-> 180000000]
      [] key = ETH_USD ->
           [baseVolatility |-> 65000, trendStrength |-> 12000,
            meanReversion |-> 1000, intradayRange |-> 45000,
            mondayEffect |-> 7000, monthEndEffect |-> 4000,
            baseVolume |-> 220000000]

\* const companies of each synthesizer: the basePrice column, in pips.
RealtimeBasePrice(symbol) ==
    CASE symbol = AAPL -> 1955000
      [] symbol = TSLA -> 2978900
      [] symbol = GOOGL -> 1455000

FallbackCompanies ==
    {AAPL, TSLA, GOOGL, MSFT, NVDA, AMZN, META, BTC_USD, ETH_USD}

FallbackBasePrice(symbol) ==
    CASE symbol = AAPL -> 1855000
      [] symbol = TSLA -> 2978900
      [] symbol = GOOGL -> 1405000
      [] symbol = MSFT -> 4153000
      [] symbol = NVDA -> 8754500
      [] symbol = AMZN -> 1557500
      [] symbol = META -> 5152000
      [] symbol = BTC_USD -> 432500000
      [] symbol = ETH_USD -> 24806000

RealisticCompanies == {AAPL, TSLA, GOOGL, MSFT, NVDA, BTC_USD, ETH_USD}

RealisticBasePrice(symbol) ==
    CASE symbol = AAPL -> 1855000
      [] symbol = TSLA -> 2487500
      [] symbol = GOOGL -> 26504000
      [] symbol = MSFT -> 4153000
      [] symbol = NVDA -> 8754500
      [] symbol = BTC_USD -> 432500000
      [] symbol = ETH_USD -> 24806000

Synthesizers == {"realtime", "fallback", "realistic"}

Companies(fn) ==
    CASE fn = "realtime" -> RealtimeCompanies
      [] fn = "fallback" -> FallbackCompanies
      [] fn = "realistic" -> RealisticCompanies

BasePrice(fn, symbol) ==
    CASE fn = "realtime" -> RealtimeBasePrice(symbol)
      [] fn = "fallback" -> FallbackBasePrice(symbol)
      [] fn = "realistic" -> RealisticBasePrice(symbol)

\* date.getDay() for date = the day i days before the call (i <= 90 < 98).
DayOfWeek(dow, i) == (dow + 98 - i) % 7

\* (Math.random() - 0.5) * volatility, for the draw k / RandDen.
RandomAround(k, volatility) == Trunc((2 * k - RandDen) * volatility, 2 * RandDen)

\* getRealtimeMarketData: totalChange of the iteration (ppm).  isEndOfMonth
\* (date.getDate() > 25) depends on the calendar.
RealtimeTotalChange(symbol, i, dow, cur, k1, isEndOfMonth) ==
    LET base == RealtimeBasePrice(symbol)
        assetProfile == Profiles(getAssetVolatilityProfile(symbol))
        dayOfWeek == DayOfWeek(dow, i)
        isWeekend == dayOfWeek = 0 \/ dayOfWeek = 6
        isMonday == dayOfWeek = 1
        trendFactor == (SinMilli(i) * assetProfile.trendStrength) \div 1000
        meanReversionFactor ==
            Trunc((base - cur) * (assetProfile.meanReversion \div 1000),
                  base \div 1000)
        volatilityFactor == RandomAround(k1, assetProfile.baseVolatility)
        mondayEffect == IF isMonday THEN assetProfile.mondayEffect ELSE 0
        monthEndEffect ==
            IF isEndOfMonth THEN assetProfile.monthEndEffect ELSE 0
        sum == trendFactor + meanReversionFactor + volatilityFactor
                 + mondayEffect + monthEndEffect
    IN  IF isWeekend THEN Trunc(sum * 3, 10) ELSE sum

\* getRealtimeMarketData: the point pushed by the iteration.
RealtimePoint(symbol, i, dow, cur, totalChange, k2, k3, k4) ==
    LET assetProfile == Profiles(getAssetVolatilityProfile(symbol))
        dayOfWeek == DayOfWeek(dow, i)
        open == cur
        intraday_range ==
            assetProfile.intradayRange
              + MulPpm(assetProfile.intradayRange, 2 * Abs(totalChange))
        high == Scale(open, (intraday_range * k2) \div RandDen)
        low == Scale(open, 0 - ((intraday_range * k3) \div RandDen))
        close == Scale(cur, totalChange)
        adjustedHigh == Max(high, Max(open, close))
        adjustedLow == Min(low, Min(open, close))
        moved == assetProfile.baseVolume
                   + MulPpm(assetProfile.baseVolume, 3 * Abs(totalChange))
        byDay == IF dayOfWeek = 1 \/ dayOfWeek = 5
                 THEN (moved \div 10) * 12 ELSE moved
        volume == MulPpm(byDay, 700000 + (600000 * k4) \div RandDen)
    IN  [date |-> 0 - i, price |-> toFixed2(close), open |-> toFixed2(open),
         high |-> toFixed2(adjustedHigh), low |-> toFixed2(adjustedLow),
         volume |-> volume]

\* generateFallbackData: let volatility.
FallbackVolatility(symbol) ==
    IF Includes(symbol, USD) THEN 45000
    ELSE IF symbol \in {TSLA, NVDA} THEN 32000
    ELSE IF symbol \in {AAPL, MSFT, GOOGL} THEN 22000
    ELSE 25000

\* generateFallbackData: dailyChange of the iteration (ppm).  The mean
\* reversion term is (basePrice - currentPrice) * 0.002, a difference in
\* dollars.
FallbackDailyChange(symbol, i, dow, cur, k1) ==
    LET base == FallbackBasePrice(symbol)
        dayOfWeek == DayOfWeek(dow, i)
        trend == SinMilli(i)
        meanReversion == Trunc(base - cur, 5)
        randomWalk == RandomAround(k1, FallbackVolatility(symbol))
        sum == trend + meanReversion + randomWalk
    IN  IF dayOfWeek = 0 \/ dayOfWeek = 6 THEN Trunc(sum, 2) ELSE sum

\* generateFallbackData: the point pushed by the iteration.
FallbackPoint(symbol, i, cur, dailyChange, k2, k3, k4) ==
    LET open == cur
        high == Scale(cur, MulPpm(Abs(dailyChange),
                                  500000 + (500000 * k2) \div RandDen))
        low == Scale(cur, 0 - MulPpm(Abs(dailyChange),
                                     500000 + (500000 * k3) \div RandDen))
        close == Scale(cur, dailyChange)
        baseVolume == IF Includes(symbol, USD) THEN 50000000
                      ELSE IF symbol \in {AAPL, TSLA} THEN 80000000
                      ELSE 30000000
        varied == MulPpm(baseVolume, 300000 + (700000 * k4) \div RandDen)
        volume == varied + MulPpm(varied, 2 * Abs(dailyChange))
    IN  [date |-> 0 - i, price |-> toFixed2(close), open |-> toFixed2(open),
         high |-> toFixed2(high), low |-> toFixed2(low), volume |-> volume]

\* generateRealisticMarketData: const volatility.
RealisticVolatility(symbol) ==
    IF Includes(symbol, USD) THEN 40000
    ELSE IF symbol = TSLA THEN 30000 ELSE 20000

\* generateRealisticMarketData: dailyChange of the iteration (ppm).
RealisticDailyChange(symbol, k1) ==
    RandomAround(k1, RealisticVolatility(symbol))

\* generateRealisticMarketData: the point pushed by the iteration.
RealisticPoint(symbol, i, cur, dailyChange, k2, k3, k4) ==
    LET open == cur
        high == Scale(cur, (Abs(dailyChange) * k2) \div RandDen)
        low == Scale(cur, 0 - ((Abs(dailyChange) * k3) \div RandDen))
        close == Scale(cur, dailyChange)
        volume == ((2000000 * k4) \div RandDen + 500000)
                    * (IF Includes(symbol, USD) THEN 100 ELSE 1)
    IN  [date |-> 0 - i, price |-> toFixed2(close), open |-> toFixed2(open),
         high |-> toFixed2(high), low |-> toFixed2(low), volume |-> volume]

SyIdle ==
    /\ syPc = "idle" /\ syFn = "none" /\ sySymbol = <<>> /\ syDow = 0
    /\ syI = 0 /\ syCurrentPrice = 0 /\ syCount = 0 /\ syPoint = Null
    /\ syResult = "none"

\* A synthesizer is called: if (!company) return null; otherwise
\* let currentPrice = company.basePrice and the loop starts at i = 90.
CallSynthesizer(fn, symbol, dow) ==
    /\ UNCHANGED syOthers
    /\ syPc = "idle"
    /\ syFn' = fn /\ sySymbol' = symbol /\ syDow' = dow
    /\ IF symbol \notin Companies(fn)
       THEN /\ syPc' = "returned" /\ syResult' = "null"
            /\ UNCHANGED <<syI, syCurrentPrice>>
       ELSE /\ syPc' = "loop" /\ syResult' = "none"
            /\ syI' = RealtimeHistoryDays
            /\ syCurrentPrice' = BasePrice(fn, symbol)
    /\ UNCHANGED <<syCount, syPoint>>

\* The loop is explored for its first SynthSteps iterations, and while the
\* numbers stay within 32 bits.
Explored(dailyChange) ==
    /\ syPc = "loop" /\ syI >= 0
    /\ syCount < SynthSteps
    /\ Abs(syCurrentPrice) <= PriceCap
    /\ Abs(dailyChange) <= ChangeCap

\* What every iteration does besides computing its point:
\* historicalData.push(point); currentPrice = close.
Pushed(point, dailyChange) ==
    /\ syPoint' = point
    /\ syCount' = syCount + 1
    /\ syCurrentPrice' = Scale(syCurrentPrice, dailyChange)
    /\ syPc' = "pushed"
    /\ UNCHANGED <<syI, syFn, sySymbol, syDow, syResult>>

\* One iteration of the loop of getRealtimeMarketData.
RealtimeIteration(k1, k2, k3, k4, isEndOfMonth) ==
    /\ UNCHANGED syOthers
    /\ syFn = "realtime"
    /\ LET totalChange == RealtimeTotalChange(sySymbol, syI, syDow,
                              syCurrentPrice, k1, isEndOfMonth) IN
       /\ Explored(totalChange)
       /\ Pushed(RealtimePoint(sySymbol, syI, syDow, syCurrentPrice,
                               totalChange, k2, k3, k4), totalChange)

\* One iteration of the loop of generateFallbackData.
FallbackIteration(k1, k2, k3, k4) ==
    /\ UNCHANGED syOthers
    /\ syFn = "fallback"
    /\ LET dailyChange == FallbackDailyChange(sySymbol, syI, syDow,
                              syCurrentPrice, k1) IN
       /\ Explored(dailyChange)
       /\ Pushed(FallbackPoint(sySymbol, syI, syCurrentPrice, dailyChange,
                               k2, k3, k4), dailyChange)

\* One iteration of the loop of generateRealisticMarketData.
RealisticIteration(k1, k2, k3, k4) ==
    /\ UNCHANGED syOthers
    /\ syFn = "realistic"
    /\ LET dailyChange == RealisticDailyChange(sySymbol, k1) IN
       /\ Explored(dailyChange)
       /\ Pushed(RealisticPoint(sySymbol, syI, syCurrentPrice, dailyChange,
                                k2, k3, k4), dailyChange)

\* The end of the loop body: the constants of the iteration go out of
\* scope, and i--.
LoopAdvances ==
    /\ UNCHANGED syOthers
    /\ syPc = "pushed"
    /\ syPoint' = Null
    /\ syI' = syI - 1
    /\ syPc' = "loop"
    /\ UNCHANGED <<syFn, sySymbol, syDow, syCurrentPrice, syCount, syResult>>

\* The symbols the synthesizers are called with: every key of their tables
\* and one that is in none.
SynthSymbols == FallbackCompanies \cup {<<"Z", "Z", "Z", "Z">>}

SyStep ==
    \/ \E fn \in Synthesizers, symbol \in SynthSymbols, dow \in 0..6 :
           CallSynthesizer(fn, symbol, dow)
    \/ \E k1 \in Draws, k2 \in Draws, k3 \in Draws, k4 \in Draws,
          isEndOfMonth \in BOOLEAN :
           RealtimeIteration(k1, k2, k3, k4, isEndOfMonth)
    \/ \E k1 \in Draws, k2 \in Draws, k3 \in Draws, k4 \in Draws :
           FallbackIteration(k1, k2, k3, k4)
    \/ \E k1 \in Draws, k2 \in Draws, k3 \in Draws, k4 \in Draws :
           RealisticIteration(k1, k2, k3, k4)
    \/ LoopAdvances

-----------------------------------------------------------------------------
\* The indicator functions of real-financial-api.ts.  A price series is a
\* sequence of prices in cents; averages are in millicents (1/1000 of a
\* cent), deviations for the Bollinger bands in decicents, returns in units
\* of 1/100000, the annualized volatility in units of 1/10000 of a percent.

RECURSIVE Sum(_)
Sum(xs) == IF xs = <<>> THEN 0 ELSE xs[1] + Sum(Tail(xs))

\* Array.prototype.slice(-n)
Last(xs, n) == SubSeq(xs, Max(1, Len(xs) - n + 1), Len(xs))

\* Math.min(...xs) and Math.max(...xs) of a non-empty array.
RECURSIVE MinOf(_)
MinOf(xs) == IF Len(xs) = 1 THEN xs[1] ELSE Min(xs[1], MinOf(Tail(xs)))

RECURSIVE MaxOf(_)
MaxOf(xs) == IF Len(xs) = 1 THEN xs[1] ELSE Max(xs[1], MaxOf(Tail(xs)))

\* Math.sqrt of a non-negative integer, rounded down (bisection).
RECURSIVE SqrtBetween(_, _, _)
SqrtBetween(n, lo, hi) ==
    IF lo = hi THEN lo
    ELSE LET mid == (lo + hi + 1) \div 2 IN
         IF mid * mid <= n THEN SqrtBetween(n, mid, hi)
         ELSE SqrtBetween(n, lo, mid - 1)

ISqrt(n) == SqrtBetween(n, 0, Min(n, 46340))

\* The prices of a series in millicents.
Millicents(prices) == [k \in 1..Len(prices) |-> 1000 * prices[k]]

\* prices.slice(1).map((price, i) => price - prices[i])
Changes(prices) == [k \in 1..(Len(prices) - 1) |-> prices[k + 1] - prices[k]]

\* The smoothing loop of calculateRSI from index period on, for the gains or
\* the losses (in cents), given the running average (in millicents).
RECURSIVE Smoothed(_, _, _, _)
Smoothed(avg, xs, k, period) ==
    IF k > Len(xs) THEN avg
    ELSE Smoothed((avg * (period - 1) + 1000 * xs[k]) \div period,
                  xs, k + 1, period)

\* A calculateRSI without its test of the length: the averages are taken
\* over the changes there are.
calculateRSINoGuard(prices, period) ==
    LET changes == Changes(prices)
        first == Min(period, Len(changes))
        gains == [k \in 1..Len(changes) |->
                     IF changes[k] > 0 THEN changes[k] ELSE 0]
        losses == [k \in 1..Len(changes) |->
                      IF changes[k] < 0 THEN Abs(changes[k]) ELSE 0]
        avgGain == Smoothed((1000 * Sum(SubSeq(gains, 1, first))) \div period,
                            gains, period + 1, period)
        avgLoss == Smoothed((1000 * Sum(SubSeq(losses, 1, first))) \div period,
                            losses, period + 1, period)
        avgLossOr1 == IF avgLoss = 0 THEN 100000 ELSE avgLoss
    IN  10000 - (10000 * avgLossOr1) \div (avgLossOr1 + avgGain)

\* calculateRSI(prices, period), times 100.  In "avgLoss || 1" the 1 is one
\* dollar: 100000 millicents.
calculateRSI(prices, period) ==
    IF Len(prices) < period + 1 THEN 5000
    ELSE LET changes == Changes(prices)
             gains == [k \in 1..Len(changes) |->
                          IF changes[k] > 0 THEN changes[k] ELSE 0]
             losses == [k \in 1..Len(changes) |->
                          IF changes[k] < 0 THEN Abs(changes[k]) ELSE 0]
             avgGain == Smoothed(
                 (1000 * Sum(SubSeq(gains, 1, period))) \div period,
                 gains, period + 1, period)
             avgLoss == Smoothed(
                 (1000 * Sum(SubSeq(losses, 1, period))) \div period,
                 losses, period + 1, period)
             avgLossOr1 == IF avgLoss = 0 THEN 100000 ELSE avgLoss
         IN  10000 - (10000 * avgLossOr1) \div (avgLossOr1 + avgGain)

\* The loop of calculateEMA from index k on: ema = x * multiplier + ema *
\* (1 - multiplier) with multiplier = 2 / (period + 1).
RECURSIVE EmaFrom(_, _, _, _)
EmaFrom(ema, xs, k, period) ==
    IF k > Len(xs) THEN ema
    ELSE EmaFrom(Trunc(2 * xs[k] + (period - 1) * ema, period + 1),
                 xs, k + 1, period)

\* calculateEMA(xs, period), for values in millicents.
calculateEMA(xs, period) ==
    IF Len(xs) = 0 THEN 0 ELSE EmaFrom(xs[1], xs, 2, period)

\* calculateMACD(prices), in millicents.  macdValues has one entry for each
\* prefix of 26 or more prices.
calculateMACD(prices) ==
    LET mc == Millicents(prices)
        ema12 == calculateEMA(mc, 12)
        ema26 == calculateEMA(mc, 26)
        macd == ema12 - ema26
        macdValues ==
            [i \in 1..Max(0, Len(prices) - 25) |->
                LET slice == SubSeq(mc, 1, 25 + i) IN
                calculateEMA(slice, 12) - calculateEMA(slice, 26)]
        signal == calculateEMA(macdValues, 9)
    IN  [macd |-> macd, signal |-> signal, histogram |-> macd - signal]

\* calculateSMA(prices, period), in millicents, for a non-empty series.
calculateSMA(prices, period) ==
    IF Len(prices) < period
    THEN (1000 * Sum(prices)) \div Len(prices)
    ELSE (1000 * Sum(Last(prices, period))) \div period

\* calculateBollingerBands(prices, period), in decicents: the variance
\* divides by period, whatever the number of recent prices.
calculateBollingerBands(prices, period) ==
    LET sma == calculateSMA(prices, period) \div 100
        recentPrices == Last(prices, period)
        squares == [k \in 1..Len(recentPrices) |->
                       (10 * recentPrices[k] - sma)
                         * (10 * recentPrices[k] - sma)]
        variance == Sum(squares) \div period
        stdDev == ISqrt(variance)
    IN  [upper |-> sma + stdDev * 2, middle |-> sma,
         lower |-> sma - stdDev * 2]

\* Math.log(price / previous), in units of 1/100000: ln(1 + x) is taken as
\* x - x^2 / 2.
LogReturn(price, previous) ==
    LET x == Trunc((price - previous) * 100000, previous) IN
    x - (x * x) \div 200000

\* calculateVolatility(prices): the population standard deviation of the
\* log returns (ss.standardDeviation, here sqrt(n * sum of squares -
\* square of sum) / n), times sqrt(252) * 100 = 1587.4.
calculateVolatility(prices) ==
    IF Len(prices) < 2 THEN 0
    ELSE LET returns == [k \in 1..(Len(prices) - 1) |->
                            LogReturn(prices[k + 1], prices[k])]
             n == Len(returns)
             squares == [k \in 1..n |-> returns[k] * returns[k]]
         IN  (ISqrt(n * Sum(squares) - Sum(returns) * Sum(returns)) * 15874)
               \div (100 * n)

-----------------------------------------------------------------------------
\* The prediction functions: generateAdvancedPrediction
\* (real-financial-api.ts) and generateAIPrediction (financial-api.ts).
\* Percentages are in units of 1/10000 of a percent before rounding and in
\* hundredths of a percent after toFixed(2); confidences in thousandths
\* before Math.round.

\* x / d rounded to the nearest integer, halves away from zero (toFixed).
RoundDiv(x, d) == IF x >= 0 THEN (x + d \div 2) \div d
                  ELSE 0 - ((d \div 2 - x) \div d)

\* `${timeframeDays} day${timeframeDays > 1 ? 's' : ''}`
TimeframeText(timeframeDays) ==
    <<timeframeDays, IF timeframeDays > 1 THEN "days" ELSE "day">>

\* Math.pow(0.95, timeframeDays), times 10000.
RECURSIVE timeDecay(_)
timeDecay(timeframeDays) ==
    IF timeframeDays = 0 THEN 10000
    ELSE (timeDecay(timeframeDays - 1) * 95) \div 100

Prices(historicalData) ==
    [k \in 1..Len(historicalData) |-> historicalData[k].price]
Volumes(historicalData) ==
    [k \in 1..Len(historicalData) |-> historicalData[k].volume]
Highs(historicalData) ==
    [k \in 1..Len(historicalData) |-> historicalData[k].high]
Lows(historicalData) ==
    [k \in 1..Len(historicalData) |-> historicalData[k].low]

\* (currentPrice - lower) / (upper - lower), in thousandths; 0 / 0 is NaN.
BbPosition(currentPrice, bands) ==
    IF bands.upper = bands.lower
    THEN [defined |-> FALSE, value |-> 0]
    ELSE [defined |-> TRUE,
          value |-> Trunc((10 * currentPrice - bands.lower) * 1000,
                          bands.upper - bands.lower)]

\* let baseMultiplier (ppm), after the RSI, MACD, moving-average and
\* Bollinger influences.
BaseMultiplier(rsi, macd, currentPrice, sma20, sma50, bbPosition) ==
    LET afterRsi ==
            IF rsi > 7000 THEN 1000000 - 1000000 \div 50
            ELSE IF rsi < 3000 THEN 1000000 + 1000000 \div 50
            ELSE 1000000
        afterMacd ==
            IF macd.macd > macd.signal THEN afterRsi + afterRsi \div 200
            ELSE afterRsi - afterRsi \div 200
        afterMa ==
            IF 1000 * currentPrice > sma20 /\ sma20 > sma50
            THEN afterMacd + afterMacd \div 100
            ELSE IF 1000 * currentPrice < sma20 /\ sma20 < sma50
            THEN afterMacd - afterMacd \div 100
            ELSE afterMacd
    IN  IF bbPosition.defined /\ bbPosition.value > 800
        THEN afterMa - afterMa \div 200
        ELSE IF bbPosition.defined /\ bbPosition.value < 200
        THEN afterMa + afterMa \div 200
        ELSE afterMa

\* volumes.slice(-20).reduce((a, b) => a + b, 0) / 20, times 20.
VolumeProfile20(volumes) == Sum(Last(volumes, 20))

\* The confidence without its clamp.
AdvancedConfidenceUnclamped(rsi, volumes, timeframeDays) ==
    LET last == volumes[Len(volumes)]
        lastOr1 == IF last = 0 THEN 1 ELSE last
        volumeConsistency ==
            Min(Trunc(VolumeProfile20(volumes) * 1000, 20 * lastOr1), 2000)
        baseConfidence ==
            75000 + Abs(rsi - 5000) * 3 + volumeConsistency * 10
    IN  (baseConfidence * timeDecay(timeframeDays)) \div 10000

\* const confidence of generateAdvancedPrediction, in thousandths:
\* trendConsistency = |rsi - 50| / 50, volumeConsistency =
\* min(volumeProfile / (last volume || 1), 2), baseConfidence = 75 + 15 *
\* trendConsistency + 10 * volumeConsistency, clamped to [55, 95] after the
\* time decay.
AdvancedConfidence(rsi, volumes, timeframeDays) ==
    LET last == volumes[Len(volumes)]
        lastOr1 == IF last = 0 THEN 1 ELSE last
        volumeConsistency ==
            Min(Trunc(VolumeProfile20(volumes) * 1000, 20 * lastOr1), 2000)
        baseConfidence ==
            75000 + Abs(rsi - 5000) * 3 + volumeConsistency * 10
    IN  Min(95000,
            Max(55000, (baseConfidence * timeDecay(timeframeDays)) \div 10000))

\* The features array holds a NaN or an infinity: bbPosition is 0 / 0, or
\* Math.log(volumeProfile) is the logarithm of 0.
NonFiniteFeatures(historicalData) ==
    LET prices == Prices(historicalData) IN
    \/ ~BbPosition(prices[Len(prices)],
                   calculateBollingerBands(prices, 20)).defined
    \/ VolumeProfile20(Volumes(historicalData)) = 0

\* generateAdvancedExplanation: the conditions named in the text.
\* const volatilityLevel of generateAdvancedExplanation and let riskLevel of
\* generateAdvancedPrediction; the volatility in 1e-4 percent.
VolatilityLevel(volatility) ==
    IF volatility > 400000 THEN "high"
    ELSE IF volatility > 200000 THEN "moderate" ELSE "low"
RiskLevel(volatility) ==
    IF volatility < 200000 THEN "low"
    ELSE IF volatility < 400000 THEN "medium" ELSE "high"

generateAdvancedExplanation(trend, rsi, macd, volatility, bbPosition) ==
    [trend |-> trend,
     rsiCondition |-> IF rsi > 7000 THEN "overbought"
                      ELSE IF rsi < 3000 THEN "oversold" ELSE "neutral",
     macdCondition |-> IF macd.macd > macd.signal THEN "bullish momentum"
                       ELSE "bearish momentum",
     volatilityLevel |-> VolatilityLevel(volatility),
     bbCondition |->
         IF bbPosition.defined /\ bbPosition.value > 800
         THEN "near upper band resistance"
         ELSE IF bbPosition.defined /\ bbPosition.value < 200
         THEN "near lower band support"
         ELSE "within normal range"]

\* let baseMultiplier of generateAdvancedPrediction for a series, in ppm.
AdvancedBaseMultiplier(historicalData) ==
    LET prices == Prices(historicalData)
        currentPrice == prices[Len(prices)]
    IN  BaseMultiplier(calculateRSI(prices, 14), calculateMACD(prices),
                       currentPrice, calculateSMA(prices, 20),
                       calculateSMA(prices, 50),
                       BbPosition(currentPrice,
                                  calculateBollingerBands(prices, 20)))

\* A perturbation drawn on both sides: (Math.random() - 0.5) in the place
\* of Math.random().
AdvancedPredictedPriceSigned(historicalData, k) ==
    LET prices == Prices(historicalData)
        currentPrice == prices[Len(prices)]
        baseMultiplier == AdvancedBaseMultiplier(historicalData)
        volatilityAdjustment ==
            (calculateVolatility(prices) * (2 * k - RandDen))
                \div (20 * RandDen)
    IN  Scale(MulPpm(1000 * currentPrice, baseMultiplier),
              volatilityAdjustment)

\* const predictedPrice of generateAdvancedPrediction before toFixed, in
\* millicents: currentPrice * baseMultiplier * volatilityAdjustment, where
\* volatilityAdjustment is 1 + (volatility / 100) * Math.random() * 0.1.
AdvancedPredictedPrice(historicalData, k) ==
    LET prices == Prices(historicalData)
        currentPrice == prices[Len(prices)]
        baseMultiplier == AdvancedBaseMultiplier(historicalData)
        \* volatilityAdjustment less 1, in ppm
        volatilityAdjustment ==
            (calculateVolatility(prices) * k) \div (10 * RandDen)
    IN  MulPpm(1000 * currentPrice,
               baseMultiplier + MulPpm(baseMultiplier, volatilityAdjustment))

\* generateAdvancedPrediction(historicalData, timeframeDays) for a non-empty
\* series, with Math.random() = k / RandDen, when the regression
\* constructor returns.
\* The support level taken over every low of the series.
SupportLevelAllLows(historicalData) == MinOf(Lows(historicalData)) * 980

\* Support and resistance, in thousandths of the unit of the prices.
SupportLevel(historicalData) == MinOf(Last(Lows(historicalData), 20)) * 980
ResistanceLevel(historicalData) ==
    MaxOf(Last(Highs(historicalData), 20)) * 1020

\* The levels as returned, Number(x.toFixed(2)), in cents; perCent is the
\* number of price units in a cent (1 for prices in cents).
ReturnedLevels(historicalData, perCent) ==
    [supportLevel |->
        RoundDiv(SupportLevel(historicalData), 1000 * perCent),
     resistanceLevel |->
        RoundDiv(ResistanceLevel(historicalData), 1000 * perCent)]

generateAdvancedPrediction(historicalData, timeframeDays, k) ==
    LET prices == Prices(historicalData)
        volumes == Volumes(historicalData)
        currentPrice == prices[Len(prices)]
        rsi == calculateRSI(prices, 14)
        macd == calculateMACD(prices)
        sma20 == calculateSMA(prices, 20)
        sma50 == calculateSMA(prices, 50)
        ema12 == calculateEMA(Millicents(prices), 12)
        ema26 == calculateEMA(Millicents(prices), 26)
        bollingerBands == calculateBollingerBands(prices, 20)
        volatility == calculateVolatility(prices)
        bbPosition == BbPosition(currentPrice, bollingerBands)
        predictedPrice == AdvancedPredictedPrice(historicalData, k)
        changePercent ==
            Trunc((predictedPrice - 1000 * currentPrice) * 1000, currentPrice)
        confidence == AdvancedConfidence(rsi, volumes, timeframeDays)
        trend == IF Abs(changePercent) < 5000 THEN "neutral"
                 ELSE IF changePercent > 0 THEN "bullish" ELSE "bearish"
        riskLevel == RiskLevel(volatility)
        mlModelScore ==
            Min(100000, Max(0, 70000 + Trunc(confidence - 70000, 2)
                                 + Trunc((1000000 - volatility) * 3, 100)))
    IN  [symbol |-> <<>>,
         timeframe |-> TimeframeText(timeframeDays),
         predictedPrice |-> RoundDiv(predictedPrice, 1000),
         confidence |-> (confidence + 500) \div 1000,
         changePercent |-> RoundDiv(changePercent, 100),
         trend |-> trend,
         explanation |->
            generateAdvancedExplanation(trend, rsi, macd, volatility,
                                        bbPosition),
         technicalFactors |->
            [rsi |-> rsi, macd |-> macd,
             sma20 |-> RoundDiv(sma20, 1000), sma50 |-> RoundDiv(sma50, 1000),
             ema12 |-> RoundDiv(ema12, 1000), ema26 |-> RoundDiv(ema26, 1000),
             bollingerBands |-> bollingerBands,
             volatility |-> RoundDiv(volatility, 100)],
         mlModelScore |-> (mlModelScore + 500) \div 1000,
         riskLevel |-> riskLevel,
         supportLevel |-> ReturnedLevels(historicalData, 1).supportLevel,
         resistanceLevel |->
            ReturnedLevels(historicalData, 1).resistanceLevel,
         priceTargets |->
            [conservative |->
                RoundDiv(1000 * currentPrice
                   + Trunc(3 * (predictedPrice - 1000 * currentPrice), 10),
                   1000),
             moderate |->
                RoundDiv(1000 * currentPrice
                   + Trunc(6 * (predictedPrice - 1000 * currentPrice), 10),
                   1000),
             aggressive |-> RoundDiv(predictedPrice, 1000)]]

\* generateAIPrediction(historicalData, timeframeDays) for a series of at
\* least 5 points, with Math.random() = k / RandDen.  sma5, sma10 and the
\* volatility divide by 5, 10 and 10 whatever the number of prices.
generateAIPrediction(historicalData, timeframeDays, k) ==
    LET prices == Prices(historicalData)
        n == Len(prices)
        currentPrice == prices[n]
        sma5 == (1000 * Sum(Last(prices, 5))) \div 5
        sma10 == (1000 * Sum(Last(prices, 10))) \div 10
        momentum == Trunc(1000 * ((prices[n - 1] - prices[n - 2])
                                    + (prices[n] - prices[n - 1])), 2)
        avgPrice == Sum(Last(prices, 10)) \div 10
        recent == Last(prices, 10)
        squares == [j \in 1..Len(recent) |->
                       (recent[j] - avgPrice) * (recent[j] - avgPrice)]
        volatility == ISqrt(Sum(squares) \div 10)
        trendDirection == IF sma5 > sma10 THEN 1 ELSE -1
        trendStrength == Abs(sma5 - sma10)
        basePrediction ==
            1000 * currentPrice + trendDirection * (trendStrength \div 10)
              + Trunc(momentum, 2)
        confidenceBase == (85 * timeDecay(timeframeDays)) \div 10
        volatilityAdjustment ==
            Max(100, 1000 - (volatility * 10000) \div currentPrice)
        finalConfidence ==
            Min(95000,
                Max(55000, (confidenceBase * volatilityAdjustment) \div 1000))
        predictionNoise ==
            Trunc((2 * k - RandDen) * volatility * timeframeDays * 100,
                  2 * RandDen)
        predictedPrice == Max(1000, basePrediction + predictionNoise)
        changePercent ==
            Trunc((predictedPrice - 1000 * currentPrice) * 100, currentPrice)
              * 10
        trend == IF Abs(changePercent) < 10000 THEN "neutral"
                 ELSE IF changePercent > 0 THEN "bullish" ELSE "bearish"
    IN  [predictedPrice |-> RoundDiv(predictedPrice, 1000),
         confidence |-> (finalConfidence + 500) \div 1000,
         changePercent |-> RoundDiv(changePercent, 100),
         trend |-> trend,
         \* generatePredictionExplanation: the words the text is built
         \* from (which of its four templates is drawn is left out)
         explanation |->
            [trend |-> trend,
             trendWord |-> IF trendDirection > 0 THEN "upward"
                           ELSE "downward",
             momentumWord |-> IF momentum > 0 THEN "positive"
                              ELSE "negative",
             volatilityLevel |-> IF volatility > 500 THEN "high"
                                 ELSE IF volatility > 200 THEN "moderate"
                                 ELSE "low"],
         technicalFactors |->
            [sma5 |-> RoundDiv(sma5, 1000), sma10 |-> RoundDiv(sma10, 1000),
             momentum |-> RoundDiv(momentum, 1000),
             volatility |-> volatility]]

-----------------------------------------------------------------------------
\* generatePrediction of FinancialAPI and of RealFinancialAPI: a promise
\* whose executor arms a timer; the timer's callback computes the
\* prediction.

\* The series the callers are given: lengths on both sides of 5, of 14 + 1
\* and of 26, and the 30 points of a search result's tail; prices around
\* 100.00 (in cents).
SeriesLengths == {1, 3, 4, 5, 6, 16, 27, 30}
SeriesShapes == {"flat", "up", "down", "zigzag", "dropThenFlat"}
SeriesTicks == {1, 50}
VolumeKinds == {"zero", "steady", "thinLast"}

SeriesPrice(shape, tick, k) ==
    CASE shape = "flat" -> 10000
      [] shape = "up" -> 10000 + tick * (k - 1)
      [] shape = "down" -> 10000 - tick * (k - 1)
      [] shape = "zigzag" -> IF k % 2 = 1 THEN 10000 + tick ELSE 10000
      [] shape = "dropThenFlat" -> IF k = 1 THEN 10000 + tick ELSE 10000

SeriesVolume(kind, n, k) ==
    CASE kind = "zero" -> 0
      [] kind = "steady" -> 1000
      [] kind = "thinLast" -> IF k = n THEN 100 ELSE 1000

PriceSeries(n, shape, tick, kind) ==
    [k \in 1..n |->
        [date |-> k,
         price |-> SeriesPrice(shape, tick, k),
         high |-> SeriesPrice(shape, tick, k) + tick,
         low |-> SeriesPrice(shape, tick, k) - tick,
         volume |-> SeriesVolume(kind, n, k)]]

PdIdle ==
    /\ pdApi = "none"
    /\ pdSymbol = <<>>
    /\ pdData = <<>>
    /\ pdDays = 0
    /\ pdPc = "idle"
    /\ pdSettle = "pending"
    /\ pdResult = Null

\* The promise executor: setTimeout(...), nothing else.
GeneratePrediction(api, symbol, historicalData, timeframeDays) ==
    /\ pdPc = "idle"
    /\ pdApi' = api
    /\ pdSymbol' = symbol
    /\ pdData' = historicalData
    /\ pdDays' = timeframeDays
    /\ pdPc' = "timer"
    /\ pdSettle' = "pending"
    /\ pdResult' = Null
    /\ UNCHANGED pdOthers

FinGeneratePrediction(symbol, historicalData, timeframeDays) ==
    GeneratePrediction("fin", symbol, historicalData, timeframeDays)

RealGeneratePrediction(symbol, historicalData, timeframeDays) ==
    GeneratePrediction("real", symbol, historicalData, timeframeDays)

\* FinancialAPI's timer callback: try { resolve({symbol, timeframe,
\* ...generateAIPrediction(...)}) } catch (error) { reject(error) }.
FinPredictionTimerFires(k) ==
    /\ pdPc = "timer"
    /\ pdApi = "fin"
    /\ pdPc' = "settled"
    /\ IF Len(pdData) < 5
       THEN /\ pdSettle' = "rejected"
            /\ pdResult' = "Insufficient historical data for prediction"
       ELSE /\ pdSettle' = "resolved"
            /\ pdResult' =
                 [symbol |-> pdSymbol, timeframe |-> TimeframeText(pdDays)]
                    @@ generateAIPrediction(pdData, pdDays, k)
    /\ UNCHANGED <<pdApi, pdSymbol, pdData, pdDays>>
    /\ UNCHANGED pdOthers

\* RealFinancialAPI's timer callback: no length test and no try block.  The
\* regression constructor is a library call on the features array: with a
\* NaN or an infinity among the features it may return or throw, and an
\* exception leaves the timer callback with the promise still pending.
RealPredictionTimerFires(k, regressionThrows) ==
    /\ pdPc = "timer"
    /\ pdApi = "real"
    /\ regressionThrows => NonFiniteFeatures(pdData)
    /\ IF regressionThrows
       THEN /\ pdPc' = "threw"
            /\ UNCHANGED <<pdSettle, pdResult>>
       ELSE /\ pdPc' = "settled"
            /\ pdSettle' = "resolved"
            /\ pdResult' =
                 [generateAdvancedPrediction(pdData, pdDays, k)
                    EXCEPT !.symbol = pdSymbol]
    /\ UNCHANGED <<pdApi, pdSymbol, pdData, pdDays>>
    /\ UNCHANGED pdOthers

\* The caller is done with the promise; the next call starts afresh.
PdReturn ==
    /\ pdPc \in {"settled", "threw"}
    /\ pdApi' = "none"
    /\ pdSymbol' = <<>>
    /\ pdData' = <<>>
    /\ pdDays' = 0
    /\ pdPc' = "idle"
    /\ pdSettle' = "pending"
    /\ pdResult' = Null
    /\ UNCHANGED pdOthers

PdInputs ==
    {PriceSeries(n, shape, tick, kind) :
        n \in SeriesLengths, shape \in SeriesShapes, tick \in SeriesTicks,
        kind \in VolumeKinds}

PdStep ==
    \/ \E historicalData \in PdInputs, timeframeDays \in 1..MaxHorizon :
          FinGeneratePrediction(AAPL, historicalData, timeframeDays)
    \/ \E historicalData \in PdInputs, timeframeDays \in 1..MaxHorizon :
          RealGeneratePrediction(AAPL, historicalData, timeframeDays)
    \/ \E k \in Draws : FinPredictionTimerFires(k)
    \/ \E k \in Draws, regressionThrows \in BOOLEAN :
          RealPredictionTimerFires(k, regressionThrows)
    \/ PdReturn

-----------------------------------------------------------------------------
\* The indicator functions applied to a price array: one caller holds the
\* array, picks a function and a period, and evaluates it twice.

\* Prices (in cents) of the arrays every sequence of which is tried.
SmallPrices == {0, 50, 100, 150}

SmallSeries ==
    UNION {[1..n -> SmallPrices] : n \in 1..MaxSmallLen}

PositiveSeries(prices) == \A k \in 1..Len(prices) : prices[k] > 0

\* The calls made: calculateRSI on every small array, zero prices included,
\* with every period; the averages and bands on the positive ones; and
\* every function on the price columns of the series given to
\* generatePrediction, with the periods it uses (calculateVolatility only
\* there: LogReturn is taken for prices close to each other); and
\* generateAdvancedPrediction itself, which calls them all, on the series
\* whose features are finite, for 3 days.
\* financial-api.ts BASE_PRICES, in cents, of three of its keys.
FinBasePrice(symbol) ==
    CASE symbol = AAPL -> 18550
      [] symbol = TSLA -> 24875
      [] symbol = SPY -> 48520

FinShapes == {"up", "down", "zigzag"}

\* A history as FinancialAPI.searchAsset builds it: 31 points of date,
\* price, high, low and volume, the prices moving around BASE_PRICES[symbol].
FinHistory(symbol, shape) ==
    [k \in 1..(30 + 1) |->
        [date |-> k,
         price |-> FinBasePrice(symbol) + SeriesPrice(shape, 50, k) - 10000,
         high |-> FinBasePrice(symbol) + SeriesPrice(shape, 50, k) - 9950,
         low |-> FinBasePrice(symbol) + SeriesPrice(shape, 50, k) - 10050,
         volume |-> SeriesVolume("steady", 30 + 1, k)]]

\* The same history with the closing price under the name close.
WithClose(historicalData) ==
    [k \in 1..Len(historicalData) |->
        [date |-> historicalData[k].date,
         close |-> historicalData[k].price]]

\* The basePrice of the catch block of getAIPricePredictions, in cents:
\* historicalData[historicalData.length - 1]?.close || 100.
LocalBasePrice(historicalData) ==
    IF LastClose(historicalData) = "undefined" THEN 10000
    ELSE IF historicalData[Len(historicalData)].close = 0 THEN 10000
    ELSE historicalData[Len(historicalData)].close

\* One shortTerm entry of the catch block, prices in millicents:
\* predictedPrice = basePrice * (1 + (Math.random() - 0.5) * 0.03) and
\* range = [basePrice * 0.97, basePrice * 1.03].
LocalShortTermEntry(historicalData, k) ==
    LET basePrice == LocalBasePrice(historicalData) IN
    [basePrice |-> 1000 * basePrice,
     predictedPrice |->
        1000 * basePrice
          + Trunc(1000 * basePrice * 3 * (2 * k - RandDen), 200 * RandDen),
     range |-> [low |-> 970 * basePrice, high |-> 1030 * basePrice]]

\* The series the catch block is evaluated on: histories of
\* FinancialAPI.searchAsset, the same with a close field, and no history.
LocalForecastCalls ==
    {[fn |-> "localForecast", prices |-> h, period |-> 0] :
        h \in {FinHistory(symbol, shape) :
                  symbol \in {AAPL, TSLA, SPY}, shape \in FinShapes}
              \cup {WithClose(FinHistory(symbol, shape)) :
                      symbol \in {AAPL, TSLA, SPY}, shape \in FinShapes}
              \cup {<<>>}}

\* The volatilities the two tiers are evaluated on, in 1e-4 percent: both
\* thresholds (20 and 40 percent), their neighbours and values between.
TierVolatilities ==
    {0, 100000, 199999, 200000, 200001, 300000, 399999, 400000, 400001,
     900000}
TierCalls ==
    {[fn |-> "tiers", prices |-> <<>>, period |-> v] :
        v \in TierVolatilities}

\* Series for the support and resistance levels.  A call carries in period
\* the number of price units in a cent: the series of PdInputs are in cents;
\* SubCentSeries are in tenths of a cent, two points at most, each with
\* 0 < low <= price <= high.
SubCentPoints ==
    {[date |-> 1, price |-> p, high |-> p + up, low |-> p - down,
      volume |-> 0] :
        p \in {4, 97, 250, 1000}, up \in {0, 3}, down \in {0, 3}}
SubCentSeries ==
    {<<a>> : a \in SubCentPoints}
    \cup {<<a, b>> : a \in SubCentPoints, b \in SubCentPoints}
LevelCalls ==
    {[fn |-> "levels", prices |-> s, period |-> 1] : s \in PdInputs}
    \cup {[fn |-> "levels", prices |-> s, period |-> 10] :
            s \in SubCentSeries}

IndicatorCalls ==
    LevelCalls \cup LocalForecastCalls \cup TierCalls \cup
    {[fn |-> "rsi", prices |-> s, period |-> p] :
        s \in SmallSeries, p \in 1..MaxSmallPeriod}
    \cup {[fn |-> f, prices |-> s, period |-> p] :
            f \in {"ema", "sma", "bollinger"},
            s \in {t \in SmallSeries : PositiveSeries(t)},
            p \in 1..MaxSmallPeriod}
    \cup {[fn |-> "macd", prices |-> s, period |-> 0] :
            s \in {t \in SmallSeries : PositiveSeries(t)}}
    \cup {[fn |-> "rsi", prices |-> Prices(s), period |-> 14] :
            s \in PdInputs}
    \cup {[fn |-> f, prices |-> Prices(s), period |-> 20] :
            s \in PdInputs, f \in {"sma", "bollinger"}}
    \cup {[fn |-> "ema", prices |-> Prices(s), period |-> 12] :
            s \in PdInputs}
    \cup {[fn |-> f, prices |-> Prices(s), period |-> 0] :
            s \in PdInputs, f \in {"macd", "volatility"}}
    \cup {[fn |-> "prediction", prices |-> s, period |-> 3] :
            s \in {t \in PdInputs : ~NonFiniteFeatures(t)}}

IxIdle ==
    /\ ixFn = "none"
    /\ ixPrices = <<>>
    /\ ixPeriod = 0
    /\ ixGiven = <<>>
    /\ ixResults = <<>>

\* The caller builds its array and chooses the function.
IxCall(call) ==
    /\ ixFn = call.fn
    /\ ixPrices = call.prices
    /\ ixPeriod = call.period
    /\ ixGiven = call.prices
    /\ ixResults = <<>>

\* An evaluation has returned: the functions read their argument with
\* slice, map and reduce, none of which writes to it, and keep nothing
\* between calls.
Evaluated(fn, result) ==
    /\ ixFn = fn
    /\ Len(ixResults) < 2
    /\ ixResults' = Append(ixResults, result)
    /\ UNCHANGED <<ixFn, ixPrices, ixPeriod, ixGiven>>
    /\ UNCHANGED ixOthers

\* An evaluation that takes its slice with splice, which removes the
\* elements from the argument.
EvalSMASplice ==
    /\ ixFn = "sma"
    /\ Len(ixResults) < 2
    /\ ixResults' = Append(ixResults, calculateSMA(ixPrices, ixPeriod))
    /\ ixPrices' = SubSeq(ixPrices, 1, Max(0, Len(ixPrices) - ixPeriod))
    /\ UNCHANGED <<ixFn, ixPeriod, ixGiven>>
    /\ UNCHANGED ixOthers

EvalRSI == Evaluated("rsi", calculateRSI(ixPrices, ixPeriod))

EvalEMA ==
    Evaluated("ema", calculateEMA(Millicents(ixPrices), ixPeriod))

EvalSMA == Evaluated("sma", calculateSMA(ixPrices, ixPeriod))

EvalMACD == Evaluated("macd", calculateMACD(ixPrices))

EvalBollinger ==
    Evaluated("bollinger", calculateBollingerBands(ixPrices, ixPeriod))

EvalVolatility == Evaluated("volatility", calculateVolatility(ixPrices))

\* generateAdvancedPrediction on the series, each time with its own draw.
EvalPrediction(k) ==
    Evaluated("prediction",
              generateAdvancedPrediction(ixPrices, ixPeriod, k))

EvalLevels == Evaluated("levels", ReturnedLevels(ixPrices, ixPeriod))

EvalLocalForecast(k) ==
    Evaluated("localForecast", LocalShortTermEntry(ixPrices, k))

\* riskLevel and the explanation's volatilityLevel of one volatility.
EvalTiers ==
    Evaluated("tiers", [riskLevel |-> RiskLevel(ixPeriod),
                        explanation |->
                           [volatilityLevel |-> VolatilityLevel(ixPeriod)]])

IxStep ==
    \/ EvalLevels
    \/ EvalTiers
    \/ \E k \in Draws : EvalLocalForecast(k)
    \/ EvalRSI
    \/ EvalEMA
    \/ EvalSMA
    \/ EvalMACD
    \/ EvalBollinger
    \/ EvalVolatility
    \/ \E k \in Draws : EvalPrediction(k)

-----------------------------------------------------------------------------
\* Two generatePrediction calls in flight at once.  The caller's arrays live
\* in a heap; a call holds a reference to its array, its symbol and its
\* horizon in the closure of its timer callback, which reads the array when
\* the timer fires.

\* The two arrays the callers hold: features finite, both sides of 5
\* points, the two arrays always different.
CcHeaps ==
    LET a == PriceSeries(6, "zigzag", 50, "steady")
        b == PriceSeries(6, "dropThenFlat", 1, "steady")
        c == PriceSeries(3, "zigzag", 50, "steady")
    IN  {<<a, b>>, <<b, c>>, <<c, a>>}

CcHorizons == {1, 3}

CcNoCall ==
    [pc |-> "idle", api |-> "none", symbol |-> <<>>, ref |-> 0, days |-> 0,
     given |-> Null, overlapped |-> FALSE, settle |-> "pending",
     result |-> Null]

CcIdle ==
    /\ ccHeap = <<>>
    /\ ccCalls = <<CcNoCall, CcNoCall>>

\* A generatePrediction that keeps its arguments in one variable of the
\* module instead of its closure: the call in flight sees the new symbol.
CcGeneratePredictionShared(slot, api, symbol, ref, days) ==
    /\ ccCalls[slot].pc = "idle"
    /\ ccCalls' =
         [s \in 1..2 |->
            IF s = slot
            THEN [pc |-> "timer", api |-> api, symbol |-> symbol,
                  ref |-> ref, days |-> days,
                  given |-> [symbol |-> symbol, series |-> ccHeap[ref],
                             days |-> days],
                  overlapped |-> ccCalls[3 - slot].pc = "timer",
                  settle |-> "pending", result |-> Null]
            ELSE IF ccCalls[s].pc = "timer"
            THEN [ccCalls[s] EXCEPT !.overlapped = TRUE, !.symbol = symbol]
            ELSE ccCalls[s]]
    /\ UNCHANGED ccHeap
    /\ UNCHANGED ccOthers

\* generatePrediction(symbol, historicalData, timeframeDays) of either API:
\* the executor arms the timer; the arguments stay in the closure.  given
\* and overlapped record, for the claims, what the caller passed (the array
\* by its contents at the call) and whether another call was in flight with
\* this one.
CcGeneratePrediction(slot, api, symbol, ref, days) ==
    /\ ccCalls[slot].pc = "idle"
    /\ ccCalls' =
         [s \in 1..2 |->
            IF s = slot
            THEN [pc |-> "timer", api |-> api, symbol |-> symbol,
                  ref |-> ref, days |-> days,
                  given |-> [symbol |-> symbol, series |-> ccHeap[ref],
                             days |-> days],
                  overlapped |-> ccCalls[3 - slot].pc = "timer",
                  settle |-> "pending", result |-> Null]
            ELSE IF ccCalls[s].pc = "timer"
            THEN [ccCalls[s] EXCEPT !.overlapped = TRUE]
            ELSE ccCalls[s]]
    /\ UNCHANGED ccHeap
    /\ UNCHANGED ccOthers

\* What a timer callback settles its promise with, for a series with finite
\* features: FinancialAPI rejects below 5 points and otherwise resolves
\* {symbol, timeframe, ...prediction}; RealFinancialAPI resolves
\* {...prediction, symbol}.
PredictionSettles(api, symbol, historicalData, timeframeDays, k) ==
    IF api = "fin"
    THEN IF Len(historicalData) < 5
         THEN [settle |-> "rejected",
               result |-> "Insufficient historical data for prediction"]
         ELSE [settle |-> "resolved",
               result |->
                  [symbol |-> symbol,
                   timeframe |-> TimeframeText(timeframeDays)]
                    @@ generateAIPrediction(historicalData, timeframeDays, k)]
    ELSE [settle |-> "resolved",
          result |->
             [generateAdvancedPrediction(historicalData, timeframeDays, k)
                EXCEPT !.symbol = symbol]]

\* The timer of one call fires: its callback runs to completion.  Neither
\* engine writes to the array it reads.
CcTimerFires(slot, k) ==
    /\ ccCalls[slot].pc = "timer"
    /\ LET call == ccCalls[slot]
           settled == PredictionSettles(call.api, call.symbol,
                                        ccHeap[call.ref], call.days, k)
       IN  ccCalls' = [ccCalls EXCEPT ![slot] =
                          [call EXCEPT !.pc = "settled",
                                       !.settle = settled.settle,
                                       !.result = settled.result]]
    /\ UNCHANGED ccHeap
    /\ UNCHANGED ccOthers

\* The caller of one call has consumed its promise.
CcReturn(slot) ==
    /\ ccCalls[slot].pc = "settled"
    /\ ccCalls' = [ccCalls EXCEPT ![slot] = CcNoCall]
    /\ UNCHANGED ccHeap
    /\ UNCHANGED ccOthers

CcStep ==
    \/ \E slot \in 1..2, api \in {"fin", "real"}, symbol \in {AAPL, TSLA},
          ref \in 1..2, days \in CcHorizons :
          CcGeneratePrediction(slot, api, symbol, ref, days)
    \/ \E slot \in 1..2, k \in Draws : CcTimerFires(slot, k)
    \/ \E slot \in 1..2 : CcReturn(slot)

-----------------------------------------------------------------------------
\* The Watchlist page (part_004, the component that persists to
\* localStorage).  An item is kept as its symbol and its prediction; ids are
\* timestamps of distinct additions, so an id names one position of the
\* list.  A handler whose setWatchlist is followed by the re-render and the
\* save effect is one action; the mount is two, because the load effect only
\* queues its setWatchlist and the save effect of the same commit runs
\* before the re-render.

\* localStorage.getItem returns null: nothing stored under STORAGE_KEY.
Absent == [tag |-> "absent"]

\* generateMockPrediction: change = (Math.random() - 0.5) * 0.1 in ppm,
\* confidence = Math.floor(Math.random() * 30) + 65.
generateMockPrediction(k1, k2) ==
    LET change == ((1000000 * k1) \div RandDen - 500000) \div 10
    IN  [direction |-> IF Abs(change) < 10000 THEN "neutral"
                       ELSE IF change > 0 THEN "up" ELSE "down",
         confidence |-> (k2 * 30) \div RandDen + 65]

\* JSON.stringify(watchlist): the blob kept under STORAGE_KEY.
Stringify(watchlist) == [tag |-> "json", value |-> watchlist]

\* loadWatchlist: stored ? JSON.parse(stored) : [].
loadWatchlist(stored) == IF stored = Absent THEN <<>> ELSE stored.value

\* The symbols typed into the search of this page.
WlInputs == {AAPL, TSLA, <<"Z", "Z", "Z", "Z">>}

\* The lists an earlier visit of the page can have persisted.
WlPersistedLists ==
    LET item(symbol) ==
            [symbol |-> symbol, prediction |-> generateMockPrediction(0, 0)]
    IN  {<<>>, <<item(AAPL)>>, <<item(TSLA), item(AAPL)>>}

\* No change of the list yet.
NoChange == [op |-> "none", symbol |-> <<>>, refused |-> FALSE,
             prev |-> <<>>, closure |-> <<>>]

\* The symbols of the items of a list, in order.
Symbols(watchlist) == [i \in 1..Len(watchlist) |-> watchlist[i].symbol]

WlIdle ==
    /\ wlPc = "unmounted"
    /\ wlStorage = Absent
    /\ wlWatchlist = <<>> /\ wlQueued = <<>>
    /\ wlIsAddingAsset = FALSE /\ wlIsRefreshing = FALSE
    /\ wlIsLoading = FALSE /\ wlSearch = Null
    /\ wlRefresh = <<>> /\ wlLast = NoChange

\* The page is opened: useState([]) and the first commit, then the two
\* effects in order.  The load effect reads the blob and queues
\* setWatchlist(savedWatchlist); the save effect, whose closure holds the
\* initial [], writes it.
WlMount ==
    /\ wlPc = "unmounted"
    /\ wlPc' = "mounting"
    /\ wlWatchlist' = <<>>
    /\ wlQueued' = loadWatchlist(wlStorage)
    /\ wlStorage' = Stringify(wlWatchlist')
    /\ wlIsAddingAsset' = FALSE /\ wlIsRefreshing' = FALSE
    /\ wlIsLoading' = FALSE /\ wlSearch' = Null
    /\ wlRefresh' = <<>> /\ wlLast' = NoChange
    /\ UNCHANGED wlOthers

\* The re-render the load effect asked for: watchlist is the loaded list (a
\* new array), so the save effect runs again and writes it.
WlRender ==
    /\ wlPc = "mounting"
    /\ wlPc' = "mounted"
    /\ wlWatchlist' = wlQueued
    /\ wlStorage' = Stringify(wlWatchlist')
    /\ wlQueued' = <<>>
    /\ UNCHANGED <<wlIsAddingAsset, wlIsRefreshing, wlIsLoading, wlSearch,
                   wlRefresh, wlLast>>
    /\ UNCHANGED wlOthers

\* onClick={() => setIsAddingAsset(true)} and its cancel button.
WlSetIsAddingAsset(open) ==
    /\ wlPc = "mounted"
    /\ wlIsAddingAsset # open
    /\ wlIsAddingAsset' = open
    /\ UNCHANGED <<wlPc, wlStorage, wlWatchlist, wlQueued,
                   wlIsRefreshing, wlIsLoading, wlSearch, wlRefresh, wlLast>>
    /\ UNCHANGED wlOthers

\* AssetSearch.performSearch(symbol) up to its await, with onSearchStart =
\* handleSearchStart (setIsLoading(true)).  The AssetSearch is rendered
\* while isAddingAsset and its controls are disabled while isLoading or
\* isSearching; onSearch is the handleAddAsset of the render in which the
\* search starts, whose closure holds that render's watchlist, kept here as
\* the symbols of its items, which is all handleAddAsset reads of it.
WlPerformSearch(symbol) ==
    /\ wlPc = "mounted"
    /\ wlIsAddingAsset /\ ~wlIsLoading /\ wlSearch = Null
    /\ wlSearch' = [symbol |-> symbol, watchlist |-> Symbols(wlWatchlist)]
    /\ wlIsLoading' = TRUE
    /\ UNCHANGED <<wlPc, wlStorage, wlWatchlist, wlQueued,
                   wlIsAddingAsset, wlIsRefreshing, wlRefresh, wlLast>>
    /\ UNCHANGED wlOthers

\* handleAddAsset without its check of the list.
handleAddAssetUnchecked(closure, assetData, prev, k1, k2) ==
    Append(prev, [symbol |-> assetData.symbol,
                  prediction |-> generateMockPrediction(k1, k2)])

\* handleAddAsset(symbol, assetData) in the closure of a search: the list
\* given to the page by setWatchlist(prev => [...prev, newAsset]), or prev
\* when the closure's watchlist already holds the symbol.
handleAddAsset(closure, assetData, prev, k1, k2) ==
    IF \E i \in 1..Len(closure.watchlist) :
          closure.watchlist[i] = closure.symbol
    THEN prev
    ELSE Append(prev, [symbol |-> assetData.symbol,
                       prediction |-> generateMockPrediction(k1, k2)])

\* performSearch after await FinancialAPI.searchAsset(symbol): not found
\* stops with the error; found calls handleAddAsset, which on a new symbol
\* appends and closes the search panel; the re-render runs the save effect.
WlSearchSettles(k1, k2) ==
    /\ wlPc = "mounted"
    /\ wlSearch # Null
    /\ LET assetData == FinSearchResult(wlSearch.symbol) IN
       IF assetData = Null
       THEN UNCHANGED <<wlWatchlist, wlStorage, wlIsAddingAsset, wlLast>>
       ELSE /\ wlWatchlist' = handleAddAsset(wlSearch, assetData,
                                             wlWatchlist, k1, k2)
            /\ wlStorage' = Stringify(wlWatchlist')
            /\ wlIsAddingAsset' =
                  IF wlWatchlist' = wlWatchlist THEN wlIsAddingAsset
                  ELSE FALSE
            /\ wlLast' = [op |-> "add", symbol |-> assetData.symbol,
                          refused |-> wlWatchlist' = wlWatchlist,
                          prev |-> Symbols(wlWatchlist),
                          closure |-> wlSearch.watchlist]
    /\ wlSearch' = Null
    /\ UNCHANGED <<wlPc, wlQueued, wlIsRefreshing, wlIsLoading, wlRefresh>>
    /\ UNCHANGED wlOthers

\* handleRemoveAsset(id) for the item at position i:
\* setWatchlist(watchlist.filter(item => item.id !== id)), then the
\* re-render and the save effect.
WlRemoveAsset(i) ==
    /\ wlPc = "mounted"
    /\ i \in 1..Len(wlWatchlist)
    /\ wlWatchlist' = [j \in 1..(Len(wlWatchlist) - 1) |->
                          IF j < i THEN wlWatchlist[j] ELSE wlWatchlist[j + 1]]
    /\ wlStorage' = Stringify(wlWatchlist')
    /\ wlLast' = [op |-> "remove", symbol |-> wlWatchlist[i].symbol,
                  refused |-> FALSE,
                  prev |-> Symbols(wlWatchlist),
                  closure |-> Symbols(wlWatchlist)]
    /\ UNCHANGED <<wlPc, wlQueued, wlIsAddingAsset,
                   wlIsRefreshing, wlIsLoading, wlSearch, wlRefresh>>
    /\ UNCHANGED wlOthers

\* handleRefreshPredictions up to its await: nothing on an empty list; the
\* button is disabled while isRefreshing.
WlRefreshPredictions ==
    /\ wlPc = "mounted"
    /\ Len(wlWatchlist) > 0
    /\ ~wlIsRefreshing
    /\ wlIsRefreshing' = TRUE
    /\ wlRefresh' = wlWatchlist
    /\ UNCHANGED <<wlPc, wlStorage, wlWatchlist, wlQueued,
                   wlIsAddingAsset, wlIsLoading, wlSearch, wlLast>>
    /\ UNCHANGED wlOthers

\* The list a refresh gives to the page when it maps the watchlist of its
\* closure, setWatchlist(watchlist.map(...)): draws of an item beyond the
\* draws at hand are those of the first item.
RefreshedFromClosure(closure, prev, draws) ==
    [i \in 1..Len(closure) |->
        [closure[i] EXCEPT
            !.prediction =
                IF i \in DOMAIN draws
                THEN generateMockPrediction(draws[i][1], draws[i][2])
                ELSE generateMockPrediction(0, 0)]]

\* setWatchlist(prev => prev.map(item => ({...item, prediction: ...}))):
\* the list a refresh gives to the page.  draws[i] holds the two draws of
\* item i.
Refreshed(closure, prev, draws) ==
    [i \in 1..Len(prev) |->
        [prev[i] EXCEPT
            !.prediction = generateMockPrediction(draws[i][1],
                                                  draws[i][2])]]

\* The 2000 ms timer of handleRefreshPredictions fires: every item of the
\* list as it is now gets a new prediction, isRefreshing is reset, and the
\* re-render runs the save effect.
WlRefreshTimerFires(draws) ==
    /\ wlPc = "mounted"
    /\ wlIsRefreshing
    /\ wlWatchlist' = Refreshed(wlRefresh, wlWatchlist, draws)
    /\ wlStorage' = Stringify(wlWatchlist')
    /\ wlIsRefreshing' = FALSE
    /\ wlRefresh' = <<>>
    /\ wlLast' = [op |-> "refresh", symbol |-> <<>>, refused |-> FALSE,
                  prev |-> Symbols(wlWatchlist),
                  closure |-> Symbols(wlRefresh)]
    /\ UNCHANGED <<wlPc, wlQueued, wlIsAddingAsset, wlIsLoading,
                   wlSearch>>
    /\ UNCHANGED wlOthers

\* The page is left or closed: the component state is gone, the storage
\* stays; callbacks of a search or refresh in flight no longer change
\* anything.
WlUnmount ==
    /\ wlPc # "unmounted"
    /\ wlPc' = "unmounted"
    /\ wlWatchlist' = <<>> /\ wlQueued' = <<>>
    /\ wlIsAddingAsset' = FALSE /\ wlIsRefreshing' = FALSE
    /\ wlIsLoading' = FALSE /\ wlSearch' = Null
    /\ wlRefresh' = <<>> /\ wlLast' = NoChange
    /\ UNCHANGED wlStorage
    /\ UNCHANGED wlOthers

WlStep ==
    \/ WlMount
    \/ WlRender
    \/ \E open \in BOOLEAN : WlSetIsAddingAsset(open)
    \/ \E symbol \in WlInputs : WlPerformSearch(symbol)
    \/ \E k1 \in Draws, k2 \in Draws : WlSearchSettles(k1, k2)
    \/ \E i \in 1..Len(wlWatchlist) : WlRemoveAsset(i)
    \/ WlRefreshPredictions
    \/ \E draws \in [1..Len(wlWatchlist) -> Draws \X Draws] :
          WlRefreshTimerFires(draws)
    \/ WlUnmount

-----------------------------------------------------------------------------
\* The Index page with its AssetSearch.  A handler is a closure of the
\* render that created it: what it reads of the page's state is the value
\* of that render, kept here with the callback that holds it.

\* The shapes standing for the random walk of a searched asset's history.
IdxShapes == {"up", "down", "zigzag"}

\* The body of FinancialAPI.searchAsset's timer callback, with the numeric
\* fields of the history: generateHistoricalData(upperSymbol, 30) pushes one
\* point for each i from 30 down to 0.
IdxSearchResult(symbol, shape) ==
    LET upperSymbol == toUpperCase(symbol) IN
    IF upperSymbol \notin ASSET_DATABASE THEN Null
    ELSE [tag |-> "asset", symbol |-> upperSymbol,
          historicalData |-> PriceSeries(30 + 1, shape, 50, "steady")]

\* The assets handleGeneratePrediction is tried on: histories on both
\* sides of the 5 points generateAIPrediction asks for.  (The histories of
\* FinancialAPI.searchAsset have 31 points.)
IdxLoadedAssets ==
    {[tag |-> "asset", symbol |-> symbol,
      historicalData |-> PriceSeries(n, shape, 50, "steady")] :
        symbol \in {AAPL, TSLA, SPY}, n \in {1, 4, 5, 6},
        shape \in IdxShapes}

IdxIdle ==
    /\ idxSelected = Null /\ idxIsLoading = FALSE
    /\ idxPrediction = Null /\ idxIsGenerating = FALSE
    /\ idxSearch = Null /\ idxError = "none"
    /\ idxTimers = <<>> /\ idxCalls = <<>> /\ idxToasts = {}

\* A performSearch that can start while the page's isLoading is set, as if
\* the page reset isLoading after each search.
IdxPerformSearchAnyTime(symbol) ==
    /\ idxSearch = Null
    /\ idxError' = "none"
    /\ idxSearch' = [symbol |-> symbol, selectedAssetData |-> idxSelected]
    /\ idxIsLoading' = TRUE
    /\ idxSelected' = Null
    /\ idxPrediction' = Null
    /\ UNCHANGED <<idxIsGenerating, idxTimers, idxCalls, idxToasts>>
    /\ UNCHANGED idxOthers

\* AssetSearch.performSearch(symbol) up to its await: setError(null),
\* setIsSearching(true), onSearchStart() = Index.handleSearchStart.  The
\* controls are disabled while isLoading or isSearching.  onSearch is the
\* handleAssetSearch of the render in which the search starts; the
\* handleGeneratePrediction it calls reads that render's selectedAssetData.
IdxPerformSearch(symbol) ==
    /\ ~(idxIsLoading \/ idxSearch # Null)
    /\ idxError' = "none"
    /\ idxSearch' = [symbol |-> symbol, selectedAssetData |-> idxSelected]
    /\ idxIsLoading' = TRUE
    /\ idxSelected' = Null
    /\ idxPrediction' = Null
    /\ UNCHANGED <<idxIsGenerating, idxTimers, idxCalls, idxToasts>>
    /\ UNCHANGED idxOthers

\* performSearch after await FinancialAPI.searchAsset(symbol): not found
\* sets the error; found calls the captured handleAssetSearch, which sets
\* the asset, clears the prediction and arms the 500 ms timer around the
\* captured handleGeneratePrediction; finally setIsSearching(false).
IdxSearchSettles(shape) ==
    /\ idxSearch # Null
    /\ LET assetData == IdxSearchResult(idxSearch.symbol, shape) IN
       IF assetData = Null
       THEN /\ idxError' = "notFound"
            /\ UNCHANGED <<idxSelected, idxPrediction, idxTimers, idxToasts>>
       ELSE /\ idxSelected' = assetData
            /\ idxPrediction' = Null
            /\ idxToasts' = idxToasts \cup {"success:loaded"}
            /\ idxTimers' = Append(idxTimers, idxSearch.selectedAssetData)
            /\ UNCHANGED idxError
    /\ idxSearch' = Null
    /\ UNCHANGED <<idxIsLoading, idxIsGenerating, idxCalls>>
    /\ UNCHANGED idxOthers

\* handleGeneratePrediction(timeframeDays) of a render whose
\* selectedAssetData is given, up to its await: nothing without an asset;
\* otherwise the call is started with that asset's symbol and history.
HandleGeneratePrediction(selectedAssetData, timeframeDays) ==
    IF selectedAssetData = Null
    THEN UNCHANGED <<idxIsGenerating, idxPrediction, idxCalls>>
    ELSE /\ idxIsGenerating' = TRUE
         /\ idxPrediction' = Null
         /\ idxCalls' = Append(idxCalls, [asset |-> selectedAssetData,
                                          days |-> timeframeDays])

\* The oldest 500 ms timer fires: handleGeneratePrediction(3) of the render
\* the search started in.
IdxTimerFires ==
    /\ idxTimers # <<>>
    /\ HandleGeneratePrediction(Head(idxTimers), 3)
    /\ idxTimers' = Tail(idxTimers)
    /\ UNCHANGED <<idxSelected, idxIsLoading, idxSearch, idxError, idxToasts>>
    /\ UNCHANGED idxOthers

\* The Generate AI Prediction button, rendered while an asset is selected,
\* no prediction is shown and none is being generated:
\* handleGeneratePrediction(3) of the current render.
IdxClickGenerate ==
    /\ idxSelected # Null /\ idxPrediction = Null /\ ~idxIsGenerating
    /\ HandleGeneratePrediction(idxSelected, 3)
    /\ UNCHANGED <<idxSelected, idxIsLoading, idxSearch, idxError, idxTimers,
                   idxToasts>>
    /\ UNCHANGED idxOthers

\* A handleGeneratePrediction without its finally block.
IdxPredictionSettlesNoFinally(k) ==
    /\ idxCalls # <<>>
    /\ LET call == Head(idxCalls)
           settled == PredictionSettles("fin", call.asset.symbol,
                                        call.asset.historicalData,
                                        call.days, k)
       IN  IF settled.settle = "resolved"
           THEN /\ idxPrediction' =
                     [symbol |-> call.asset.symbol,
                      currentPrice |->
                         call.asset.historicalData[
                            Len(call.asset.historicalData)].price,
                      predictedPrice |-> settled.result.predictedPrice,
                      timeframe |-> settled.result.timeframe,
                      confidence |-> settled.result.confidence,
                      trend |-> settled.result.trend,
                      changePercent |-> settled.result.changePercent,
                      explanation |-> settled.result.explanation]
                /\ idxToasts' = idxToasts \cup {"success:prediction"}
           ELSE /\ idxToasts' = idxToasts \cup {"error:prediction"}
                /\ UNCHANGED idxPrediction
    /\ UNCHANGED idxIsGenerating
    /\ idxCalls' = Tail(idxCalls)
    /\ UNCHANGED <<idxSelected, idxIsLoading, idxSearch, idxError, idxTimers>>
    /\ UNCHANGED idxOthers

\* The oldest FinancialAPI.generatePrediction call settles and
\* handleGeneratePrediction continues: setPredictionData and a success
\* toast, or the error toast of the catch block; finally
\* setIsGeneratingPrediction(false).
IdxPredictionSettles(k) ==
    /\ idxCalls # <<>>
    /\ LET call == Head(idxCalls)
           settled == PredictionSettles("fin", call.asset.symbol,
                                        call.asset.historicalData,
                                        call.days, k)
       IN  IF settled.settle = "resolved"
           THEN /\ idxPrediction' =
                     [symbol |-> call.asset.symbol,
                      currentPrice |->
                         call.asset.historicalData[
                            Len(call.asset.historicalData)].price,
                      predictedPrice |-> settled.result.predictedPrice,
                      timeframe |-> settled.result.timeframe,
                      confidence |-> settled.result.confidence,
                      trend |-> settled.result.trend,
                      changePercent |-> settled.result.changePercent,
                      explanation |-> settled.result.explanation]
                /\ idxToasts' = idxToasts \cup {"success:prediction"}
           ELSE /\ idxToasts' = idxToasts \cup {"error:prediction"}
                /\ UNCHANGED idxPrediction
    /\ idxIsGenerating' = FALSE
    /\ idxCalls' = Tail(idxCalls)
    /\ UNCHANGED <<idxSelected, idxIsLoading, idxSearch, idxError, idxTimers>>
    /\ UNCHANGED idxOthers

\* The steps in which the oldest awaited call settles, whatever its draw:
\* those of IdxPredictionSettles.
IdxCallSettles == idxCalls # <<>> /\ idxCalls' = Tail(idxCalls)

\* The steps of handleGeneratePrediction alone, on a page that shows an
\* asset.
IdxHandlerStep ==
    \/ IdxClickGenerate
    \/ \E k \in Draws : IdxPredictionSettles(k)

IdxStep ==
    \/ \E input \in SymbolInputs : IdxPerformSearch(toUpperCase(input))
    \/ \E shape \in IdxShapes : IdxSearchSettles(shape)
    \/ IdxTimerFires
    \/ IdxClickGenerate
    \/ \E k \in Draws : IdxPredictionSettles(k)

-----------------------------------------------------------------------------
\* The edge functions ai-market-analysis and ai-price-prediction: one
\* request served by the handler passed to serve().

efOthers == <<mdVars, aiVars, fcVars, syVars, pdVars, ixVars, ccVars, wlVars,
             idxVars>>

\* The requests: the method, and what await req.json() finds.  "invalid" is
\* a body that is not JSON, "jsonNull" the JSON null; the others are objects
\* without historicalData, with an empty one and with one of one point.
EfMethods == {"OPTIONS", "POST"}
EfBodies == {"invalid", "jsonNull", "noHistory", "emptyHistory", "history"}

\* What the completions endpoint does.  fetch rejects ("networkError") or
\* resolves to a response whose body is not JSON ("notJson"), an error
\* payload without choices ("errorPayload"), a payload with an empty
\* choices array ("emptyChoices"), or a completion whose content is JSON
\* text ("jsonContent"), other text ("textContent") or null
\* ("nullContent").
EfResponses == {"notJson", "errorPayload", "emptyChoices", "jsonContent",
                "textContent", "nullContent"}
EfOutcomes == {"networkError"} \cup EfResponses
EfCompletions == {"jsonContent", "textContent", "nullContent"}

EfIdle ==
    /\ efFn = "none" /\ efPc = "idle" /\ efRequest = Null
    /\ efUpstream = "none" /\ efReply = Null

\* The two Response values of the handler.
EfSuccess(source) == [status |-> 200, success |-> TRUE, source |-> source]
EfFailure == [status |-> 500, success |-> FALSE, source |-> "none"]

\* if (req.method === 'OPTIONS') return new Response('ok', ...)
EfOptions ==
    /\ efPc = "received"
    /\ efRequest.method = "OPTIONS"
    /\ efReply' = [status |-> 200, success |-> FALSE, source |-> "ok"]
    /\ efPc' = "replied"
    /\ UNCHANGED <<efFn, efRequest, efUpstream>>
    /\ UNCHANGED efOthers

\* const { ... } = await req.json(), then the fetch is issued.  A body
\* that is not JSON rejects and destructuring null throws: the catch block
\* replies.
EfReadRequest ==
    /\ efPc = "received"
    /\ efRequest.method # "OPTIONS"
    /\ IF efRequest.body \in {"invalid", "jsonNull"}
       THEN efReply' = EfFailure /\ efPc' = "replied"
       ELSE efPc' = "fetching" /\ UNCHANGED efReply
    /\ UNCHANGED <<efFn, efRequest, efUpstream>>
    /\ UNCHANGED efOthers

\* await fetch(...) settles.
EfFetchSettles(outcome) ==
    /\ efPc = "fetching"
    /\ efUpstream' = outcome
    /\ IF outcome = "networkError"
       THEN efReply' = EfFailure /\ efPc' = "replied"
       ELSE efPc' = "responded" /\ UNCHANGED efReply
    /\ UNCHANGED <<efFn, efRequest>>
    /\ UNCHANGED efOthers

\* ai-price-prediction, the inner catch block read without the array:
\* historicalData[historicalData.length - 1] throws a TypeError when the
\* request has no historicalData.
PredictionFallbackThrows(body) == body = "noHistory"

\* ai-market-analysis from const aiData = await response.json() on:
\* aiData.choices[0].message.content is read outside the inner try.
AnalysisReply(upstream, body) ==
    CASE upstream \in {"notJson", "errorPayload", "emptyChoices"} -> EfFailure
      [] upstream = "jsonContent" -> EfSuccess("model")
      \* JSON.parse(null) is null: analysis is null
      [] upstream = "nullContent" -> EfSuccess("model")
      \* JSON.parse throws: the inner catch builds the fallback object
      [] upstream = "textContent" -> EfSuccess("fallback")

\* ai-price-prediction from const aiData = await response.json() on:
\* aiData.choices[0].message.content is read inside the inner try, so a
\* payload without a completion reaches the inner catch like unparsable
\* text does.
PredictionReply(upstream, body) ==
    CASE upstream = "notJson" -> EfFailure
      [] upstream = "jsonContent" -> EfSuccess("model")
      [] upstream = "nullContent" -> EfSuccess("model")
      [] upstream \in {"errorPayload", "emptyChoices", "textContent"} ->
            IF PredictionFallbackThrows(body) THEN EfFailure
            ELSE EfSuccess("fallback")

\* await response.json() settles and the handler runs to its return.
EfReadResponse ==
    /\ efPc = "responded"
    /\ efReply' = IF efFn = "analysis"
                  THEN AnalysisReply(efUpstream, efRequest.body)
                  ELSE PredictionReply(efUpstream, efRequest.body)
    /\ efPc' = "replied"
    /\ UNCHANGED <<efFn, efRequest, efUpstream>>
    /\ UNCHANGED efOthers

EfStep ==
    \/ EfOptions
    \/ EfReadRequest
    \/ \E outcome \in EfOutcomes : EfFetchSettles(outcome)
    \/ EfReadResponse

-----------------------------------------------------------------------------
\* Specifications.

AiDefault == aiImpl = "invoke" /\ aiConfigured = TRUE

\* The market-data access layer alone.
InitMarketData == EfIdle /\ MdIdle /\ FcIdle /\ AiDefault /\ SyIdle /\ PdIdle /\ IxIdle /\ CcIdle
    /\ WlIdle /\ IdxIdle

SpecMarketData == InitMarketData /\ [][MdStep]_vars

\* The Forecast page with its AssetSearch and the remote-analysis calls, for
\* either revision of ai-analysis and either configuration.
InitForecast ==
    /\ EfIdle
    /\ MdIdle /\ FcIdle /\ SyIdle /\ PdIdle /\ IxIdle /\ CcIdle
    /\ WlIdle /\ IdxIdle
    /\ aiImpl \in {"invoke", "fetch"}
    /\ aiConfigured \in BOOLEAN
    /\ (aiImpl = "invoke" => aiConfigured)

SpecForecast == InitForecast /\ [][FcStep]_vars

\* The OHLC synthesizers.
InitSynth == EfIdle /\ MdIdle /\ FcIdle /\ AiDefault /\ SyIdle /\ PdIdle /\ IxIdle /\ CcIdle
    /\ WlIdle /\ IdxIdle

SpecSynth == InitSynth /\ [][SyStep]_vars

\* The prediction engines.
InitPredict == EfIdle /\ MdIdle /\ FcIdle /\ AiDefault /\ SyIdle /\ PdIdle /\ IxIdle /\ CcIdle
    /\ WlIdle /\ IdxIdle

SpecPredict == InitPredict /\ [][PdStep]_vars

\* The indicator functions.
InitIndicators ==
    /\ EfIdle
    /\ MdIdle /\ FcIdle /\ AiDefault /\ SyIdle /\ PdIdle /\ CcIdle
    /\ WlIdle /\ IdxIdle
    /\ \E call \in IndicatorCalls : IxCall(call)

SpecIndicators == InitIndicators /\ [][IxStep]_vars

\* Two prediction calls in flight.
InitConcurrent ==
    /\ EfIdle
    /\ MdIdle /\ FcIdle /\ AiDefault /\ SyIdle /\ PdIdle /\ IxIdle
    /\ WlIdle /\ IdxIdle
    /\ ccHeap \in CcHeaps
    /\ ccCalls = <<CcNoCall, CcNoCall>>

SpecConcurrent == InitConcurrent /\ [][CcStep]_vars

\* The Watchlist page over a storage that holds nothing or an earlier list.
InitWatchlist ==
    /\ EfIdle
    /\ MdIdle /\ FcIdle /\ AiDefault /\ SyIdle /\ PdIdle /\ IxIdle /\ CcIdle
    /\ IdxIdle
    /\ wlPc = "unmounted"
    /\ wlStorage \in {Absent} \cup {Stringify(l) : l \in WlPersistedLists}
    /\ wlWatchlist = <<>> /\ wlQueued = <<>>
    /\ wlIsAddingAsset = FALSE /\ wlIsRefreshing = FALSE
    /\ wlIsLoading = FALSE /\ wlSearch = Null
    /\ wlRefresh = <<>> /\ wlLast = NoChange

SpecWatchlist == InitWatchlist /\ [][WlStep]_vars

\* The Index page.  The promises of the calls it awaits settle and its
\* timers fire; nothing obliges the user to act.
InitIndex ==
    /\ EfIdle
    /\ MdIdle /\ FcIdle /\ AiDefault /\ SyIdle /\ PdIdle /\ IxIdle /\ CcIdle
    /\ WlIdle /\ IdxIdle

\* handleGeneratePrediction on a page that shows an asset, after its
\* search: the asset is drawn from IdxLoadedAssets.
InitIndexLoaded ==
    /\ EfIdle
    /\ MdIdle /\ FcIdle /\ AiDefault /\ SyIdle /\ PdIdle /\ IxIdle /\ CcIdle
    /\ WlIdle
    /\ idxSelected \in IdxLoadedAssets
    /\ idxIsLoading = TRUE /\ idxToasts = {"success:loaded"}
    /\ idxPrediction = Null /\ idxIsGenerating = FALSE
    /\ idxSearch = Null /\ idxError = "none"
    /\ idxTimers = <<>> /\ idxCalls = <<>>

SpecIndexLoaded == InitIndexLoaded /\ [][IdxHandlerStep]_vars

SpecIndex ==
    /\ InitIndex /\ [][IdxStep]_vars
    /\ WF_vars(\E shape \in IdxShapes : IdxSearchSettles(shape))
    /\ WF_vars(IdxTimerFires)
    /\ WF_idxCalls(IdxCallSettles)

\* One request to one of the two edge functions.
InitEdge ==
    /\ MdIdle /\ FcIdle /\ AiDefault /\ SyIdle /\ PdIdle /\ IxIdle /\ CcIdle
    /\ WlIdle /\ IdxIdle
    /\ efFn \in {"analysis", "prediction"}
    /\ efRequest \in [method : EfMethods, body : EfBodies]
    /\ efPc = "received" /\ efUpstream = "none" /\ efReply = Null

SpecEdge == InitEdge /\ [][EfStep]_vars

-----------------------------------------------------------------------------
\* Claims about the market-data access layer.

MdSettled == mdPc = "settled"

Ascending(series) ==
    \A k \in 1..(Len(series) - 1) : series[k].date < series[k + 1].date

\* C4: in fetchRealMarketData each remote call is issued at most once; once
\* a remote call has failed the search is over, no further remote call is
\* issued, and the value delivered is the output of getRealtimeMarketData
\* for the upper-cased symbol.
C4_SingleAttemptThenSynth ==
    mdApi = "real" =>
        /\ mdRemoteCalls \in {<<"quote">>, <<"quote", "historical">>}
        /\ mdFailed =>
              /\ mdPc = "settled"
              /\ mdResult = RealDeliver(mdOp,
                     getRealtimeMarketData(toUpperCase(mdInput)))

\* C4 witness: the history call failed after a successful quote, and the
\* synthesized asset was delivered.
C4_Witness ==
    /\ mdApi = "real" /\ mdOp = "search" /\ mdFailed /\ MdSettled
    /\ mdRemoteCalls = <<"quote", "historical">>
    /\ mdResult # Null /\ mdResult.origin = "synth"

\* C5 (amended): searchAsset never rejects.  FinancialAPI.searchAsset
\* resolves to null exactly when the upper-cased symbol is not in
\* ASSET_DATABASE; RealFinancialAPI.searchAsset resolves to null exactly
\* when the live fetch failed and the upper-cased symbol is not in the
\* synthesizer's company table; a non-null result carries the upper-cased
\* symbol.
C5_SearchResolves ==
    (MdSettled /\ mdOp = "search") =>
        LET u == toUpperCase(mdInput) IN
        /\ mdSettle = "resolved"
        /\ mdApi = "fin" => (mdResult = Null <=> u \notin ASSET_DATABASE)
        /\ mdApi = "real" =>
              (mdResult = Null <=> (mdFailed /\ u \notin RealtimeCompanies))
        /\ mdResult # Null => mdResult.symbol = u

\* C5 witness: a lower-case input of a known ticker was found by
\* FinancialAPI.
C5_Witness ==
    /\ MdSettled /\ mdOp = "search" /\ mdApi = "fin"
    /\ mdInput # toUpperCase(mdInput)
    /\ mdResult # Null

\* The symbols searchAsset recognizes by its own tables.
Recognized(api, u) ==
    IF api = "fin" THEN u \in ASSET_DATABASE ELSE u \in RealtimeCompanies

\* C5 as stated: searchAsset resolves, to null exactly when the upper-cased
\* symbol is not recognized, and to an asset carrying the upper-cased symbol
\* otherwise.
C5_Original ==
    (MdSettled /\ mdOp = "search") =>
        LET u == toUpperCase(mdInput) IN
        /\ mdSettle = "resolved"
        /\ mdResult = Null <=> ~Recognized(mdApi, u)
        /\ mdResult # Null => mdResult.symbol = u

\* A symbol that is in none of the built-in tables.
InNoTable(u) ==
    u \notin (ASSET_DATABASE \cup RealtimeCompanies \cup VolatilityProfiles)

\* C6 as stated: for a symbol in none of the built-in tables, the synthesizer
\* behind getExtendedHistory returns a non-empty series (FinancialAPI always
\* synthesizes; RealFinancialAPI synthesizes once the live fetch has failed).
C6_UnknownSymbolGetsSeries ==
    (/\ MdSettled /\ mdOp = "history"
     /\ InNoTable(toUpperCase(mdInput))
     /\ (mdApi = "fin" \/ mdFailed))
        => (mdResult.tag = "series" /\ mdResult.points # <<>>)

\* C7 as stated: getExtendedHistory(symbol, days) delivers days + 1 points,
\* oldest first.
C7_HistoryLength ==
    (MdSettled /\ mdOp = "history") =>
        /\ Len(mdResult.points) = mdDays + 1
        /\ Ascending(mdResult.points)

-----------------------------------------------------------------------------
\* Claims about the Forecast page and the remote-analysis wrappers.

PredictionFields ==
    {"symbol", "predictedPrice", "confidence", "trend", "changePercent",
     "explanation"}

\* C1: whatever the two remote-analysis calls do, handleGenerateForecast on
\* a selected asset ends with predictionData set to a record carrying
\* symbol, predictedPrice, confidence, trend, changePercent and explanation
\* (for the asset it was called on), with isAnalyzing false, and only
\* success toasts have ever been shown.
C1_ForecastAlwaysDelivered ==
    /\ fcToasts \subseteq SuccessToasts
    /\ fcPc = "done" =>
          /\ fcPrediction # Null
          /\ PredictionFields \subseteq DOMAIN fcPrediction
          /\ fcPrediction.symbol = fcClosure.asset.symbol
          /\ fcIsAnalyzing = FALSE

\* C1 witness: the predictions call resolved to undefined (a success body
\* without the predictions field), the try block threw, and the handler
\* ended with the record of the catch block.
C1_Witness ==
    /\ fcPc = "done"
    /\ aiPred.outcome = "noField" /\ aiPred.value = Undefined
    /\ fcPrediction # Null
    /\ fcPrediction.explanation = "canned"
    /\ "success:local" \in fcToasts

\* The remote outcomes C3 lists.
C3_Outcomes == {"throws", "non2xx", "unparsable", "noField"}

WellFormedPrediction(v) ==
    /\ v.kind = "object"
    /\ v.shortTerm = 7 /\ v.mediumTerm = 4 /\ v.firstEntry = "complete"

WellFormedAnalysis(v) == v.kind = "object" /\ v.fields = 7

\* C3 as stated: getAIPricePredictions and getAIMarketAnalysis never reject,
\* and when the request throws, the status is not a success, the body does
\* not parse or the body lacks the predictions / analysis field, they
\* resolve to a well-formed AIPrediction (7 shortTerm, 4 mediumTerm entries)
\* or AIAnalysis (seven fields).
C3_ResolvesWellFormed ==
    /\ aiPred.state # "rejected" /\ aiAnalysis.state # "rejected"
    /\ (aiPred.state = "resolved" /\ aiPred.outcome \in C3_Outcomes)
          => WellFormedPrediction(aiPred.value)
    /\ (aiAnalysis.state = "resolved" /\ aiAnalysis.outcome \in C3_Outcomes)
          => WellFormedAnalysis(aiAnalysis.value)

-----------------------------------------------------------------------------
\* Claims about the OHLC synthesizers.

\* C8 as stated: every point emitted by getRealtimeMarketData,
\* generateFallbackData and generateRealisticMarketData has, after rounding
\* to two decimals, low <= min(open, close) and high >= max(open, close).
C8_OhlcOrdered ==
    syPoint # Null =>
        /\ syPoint.low <= Min(syPoint.open, syPoint.price)
        /\ syPoint.high >= Max(syPoint.open, syPoint.price)


-----------------------------------------------------------------------------
\* Claims about the prediction engines.

\* The timer callback of the call in flight has run.
PdTimerFired == pdPc \in {"settled", "threw"}

\* C2: RealFinancialAPI.generatePrediction, given a series of fewer than 5
\* price points, rejects its promise with an error, and no Prediction is
\* ever delivered to the caller.
C2_ShortSeriesRejected ==
    (pdApi = "real" /\ PdTimerFired /\ Len(pdData) < 5)
        => pdSettle = "rejected"

\* C9: in every Prediction RealFinancialAPI.generatePrediction resolves
\* with, trend is "neutral" exactly when the returned changePercent
\* (hundredths of a percent) is below 0.5 in absolute value, and otherwise
\* "bullish" for a positive and "bearish" for a negative changePercent.
C9_TrendMatchesReturnedChange ==
    (pdApi = "real" /\ pdSettle = "resolved")
        => /\ (pdResult.trend = "neutral")
                <=> (Abs(pdResult.changePercent) < 50)
           /\ (pdResult.trend = "bullish") => (pdResult.changePercent > 0)
           /\ (pdResult.trend = "bearish") => (pdResult.changePercent < 0)

\* C10: the confidence of every Prediction of generateAdvancedPrediction and
\* of generateAIPrediction is an integer within [55, 95], for every series
\* of at least 5 points, every horizon of at least 1 day and every draw.
C10_ConfidenceWithinRange ==
    (pdSettle = "resolved" /\ Len(pdData) >= 5 /\ pdDays >= 1)
        => pdResult.confidence \in 55..95

\* A prediction over 5 points or more whose confidence the clamp raised to
\* its floor.
C10_Witness ==
    /\ pdApi = "real"
    /\ pdSettle = "resolved"
    /\ Len(pdData) >= 5
    /\ pdResult.confidence = 55
    /\ AdvancedConfidenceUnclamped(calculateRSI(Prices(pdData), 14),
                                   Volumes(pdData), pdDays) < 55000

\* C12: for the constant series of 30 points at 100.00 and a horizon of 3
\* days, the prediction of generateAdvancedPrediction has trend "neutral",
\* volatility 0, Bollinger bands (100, 100, 100) and a confidence within
\* [55, 95], for every draw.
C12_FlatSeriesNeutral ==
    (/\ pdApi = "real" /\ pdSettle = "resolved" /\ pdDays = 3
     /\ Len(pdData) = 30
     /\ \A k \in 1..30 : pdData[k].price = 10000)
        => /\ pdResult.trend = "neutral"
           /\ pdResult.technicalFactors.volatility = 0
           /\ pdResult.technicalFactors.bollingerBands
                 = [upper |-> 100000, middle |-> 100000, lower |-> 100000]
           /\ pdResult.confidence \in 55..95

-----------------------------------------------------------------------------
\* Claims about the indicator functions.

NoDownMove(prices) ==
    \A k \in 1..(Len(prices) - 1) : prices[k + 1] >= prices[k]

StrictlyIncreasing(prices) ==
    \A k \in 1..(Len(prices) - 1) : prices[k + 1] > prices[k]

\* C11: for every series of at least period + 1 prices without a downward
\* move, a constant series included, calculateRSI returns 50.
C11_NoLossGivesNeutral ==
    (ixFn = "rsi" /\ Len(ixPrices) >= ixPeriod + 1 /\ NoDownMove(ixPrices))
        => \A k \in 1..Len(ixResults) : ixResults[k] = 5000

\* C13: calculateRSI returns a value within [0, 100] for every non-empty
\* sequence of non-negative prices and every period >= 1, and exactly 50
\* when the sequence has at most period elements.
C13_RsiWithinRange ==
    ixFn = "rsi"
        => \A k \in 1..Len(ixResults) :
              /\ ixResults[k] \in 0..10000
              /\ Len(ixPrices) <= ixPeriod => ixResults[k] = 5000

\* calculateRSI has returned for an array, a zero price in it, that is no
\* longer than the period.
C13_Witness ==
    /\ ixFn = "rsi"
    /\ Len(ixResults) > 0
    /\ Len(ixPrices) <= ixPeriod
    /\ \E k \in 1..Len(ixPrices) : ixPrices[k] = 0
    /\ ixResults[1] = 5000

\* C14: for every strictly increasing price sequence longer than the RSI
\* period, calculateRSI returns a value above the overbought threshold 70
\* and calculateMACD returns a positive histogram.
C14_RisingSeriesAtTop ==
    /\ (ixFn = "rsi" /\ StrictlyIncreasing(ixPrices)
          /\ Len(ixPrices) > ixPeriod)
          => \A k \in 1..Len(ixResults) : ixResults[k] > 7000
    /\ (ixFn = "macd" /\ StrictlyIncreasing(ixPrices) /\ Len(ixPrices) > 14)
          => \A k \in 1..Len(ixResults) : ixResults[k].histogram > 0

-----------------------------------------------------------------------------
\* Claims about two prediction calls in flight.

\* What a call with these arguments can settle with, over every draw.
CcOutcomes(call) ==
    {PredictionSettles(call.api, call.given.symbol, call.given.series,
                       call.given.days, k) : k \in Draws}

\* C15: two generatePrediction calls in flight do not interact: under every
\* interleaving of the two timers, a settled call settled with what its own
\* symbol, its own series (as the caller passed it) and its own horizon
\* give for some draw, a resolved record carries the call's own symbol, and
\* no array differs from what the caller passed.
C15_CallsDoNotInteract ==
    \A slot \in 1..2 :
        LET call == ccCalls[slot]
        IN  /\ call.pc # "idle" => ccHeap[call.ref] = call.given.series
            /\ call.pc = "settled" =>
                  /\ [settle |-> call.settle, result |-> call.result]
                        \in CcOutcomes(call)
                  /\ call.settle = "resolved" =>
                        call.result.symbol = call.given.symbol

\* Both calls were in flight together, for different symbols, series and
\* horizons, and both have resolved.
C15_Witness ==
    /\ ccCalls[1].pc = "settled" /\ ccCalls[2].pc = "settled"
    /\ ccCalls[1].overlapped /\ ccCalls[2].overlapped
    /\ ccCalls[1].settle = "resolved" /\ ccCalls[2].settle = "resolved"
    /\ ccCalls[1].symbol # ccCalls[2].symbol
    /\ ccCalls[1].ref # ccCalls[2].ref
    /\ ccCalls[1].days # ccCalls[2].days
    /\ ccCalls[1].api # ccCalls[2].api

-----------------------------------------------------------------------------
\* Claims about the Watchlist page.

\* C16: the watchlist blob is read once per mount and rewritten wholesale on
\* each mutation: once the page shows its list, after any sequence of add,
\* remove and refresh, the persisted list equals the in-memory list; and at
\* no point after the mount is a previously persisted non-empty list
\* replaced by the component's initial empty list: while the list read by
\* the load effect waits for its render, the storage still holds it.
C16_PersistedFollowsMemory ==
    /\ wlPc = "mounted" => wlStorage = Stringify(wlWatchlist)
    /\ (wlPc = "mounting" /\ wlQueued # <<>>)
          => wlStorage = Stringify(wlQueued)

-----------------------------------------------------------------------------
\* Claims about the pages and their AssetSearch.

\* C18: every search through AssetSearch eventually re-enables the
\* controls: once performSearch has started, a state follows in which it
\* has completed (found, not found or error) and both AssetSearch's
\* isSearching and the page's isLoading are false again.  Stated for the
\* Index page.
C18_SearchReenablesControls ==
    (idxSearch # Null) ~> (idxSearch = Null /\ ~idxIsLoading)

\* C19: on the Forecast page, once a search has succeeded and completed,
\* selectedAssetData is set and isLoading is false, so that the analysis
\* panel (selectedAssetData && !isLoading) is shown.
C19_PanelShownAfterSearch ==
    (fcSelected # Null /\ ~asIsSearching) => ~fcIsLoading

\* C20: on the Index page a successful search leads, by the 500 ms timer
\* that the captured handleAssetSearch arms around handleGeneratePrediction(3)
\* and without further user action, to a state in which predictionData is
\* set.
C20_SearchAutoGenerates ==
    (idxSelected # Null) ~> (idxPrediction # Null)

\* C21: on the Index page, whenever predictionData is set, selectedAssetData
\* is set and predictionData.symbol is the symbol of the selected asset,
\* under every interleaving of searches, the 500 ms timer, clicks on the
\* prediction button and the settling of prediction calls.
C21_PredictionOfSelectedAsset ==
    idxPrediction # Null =>
        /\ idxSelected # Null
        /\ idxPrediction.symbol = idxSelected.symbol

\* A prediction is shown, after a search, a timer that has fired and a call
\* that has settled.
C21_Witness ==
    /\ idxPrediction # Null
    /\ idxTimers = <<>> /\ idxCalls = <<>>
    /\ "success:prediction" \in idxToasts

\* C22: FinancialAPI.generatePrediction rejects and never resolves when the
\* series has fewer than 5 points, and Index.handleGeneratePrediction, when
\* its call on such a series settles, leaves predictionData null, resets
\* isGeneratingPrediction and reports the failure.
C22_ShortSeriesFailureReported ==
    [][(/\ idxCalls # <<>>
        /\ idxCalls' = Tail(idxCalls)
        /\ Len(Head(idxCalls).asset.historicalData) < 5)
          => /\ idxPrediction' = Null
             /\ idxIsGenerating' = FALSE
             /\ "error:prediction" \in idxToasts'
             /\ "success:prediction" \notin idxToasts']_vars

\* The call on a history of fewer than 5 points has settled.
C22_Witness ==
    /\ idxSelected # Null
    /\ Len(idxSelected.historicalData) < 5
    /\ idxCalls = <<>>
    /\ "error:prediction" \in idxToasts

-----------------------------------------------------------------------------
\* Claims about the prediction of generateAdvancedPrediction.

\* The price without perturbation, currentPrice * baseMultiplier, and the
\* price under the largest perturbation the volatility allows,
\* currentPrice * baseMultiplier * (1 + volatility / 1000), in millicents.
PerturbationFloor(historicalData) ==
    MulPpm(1000 * historicalData[Len(historicalData)].price,
           AdvancedBaseMultiplier(historicalData))
PerturbationCeiling(historicalData) ==
    LET baseMultiplier == AdvancedBaseMultiplier(historicalData)
    IN  MulPpm(1000 * historicalData[Len(historicalData)].price,
               baseMultiplier
                 + MulPpm(baseMultiplier,
                          calculateVolatility(Prices(historicalData))
                             \div 10))

\* baseMultiplier lies within [0.98 * 0.995 * 0.99 * 0.995,
\* 1.02 * 1.005 * 1.01 * 1.005], in ppm.
BaseMultiplierWithinRange(historicalData) ==
    /\ AdvancedBaseMultiplier(historicalData) >= 960522
    /\ AdvancedBaseMultiplier(historicalData) <= 1040528

-----------------------------------------------------------------------------
\* Claims about calculateBollingerBands.

\* The population standard deviation of the prices around their own mean,
\* in decicents: the square root of the mean squared deviation, divided by
\* the number of prices.
PopulationStdDev(prices) ==
    LET mean == (10 * Sum(prices)) \div Len(prices)
        squares == [k \in 1..Len(prices) |->
                       (10 * prices[k] - mean) * (10 * prices[k] - mean)]
    IN  ISqrt(Sum(squares) \div Len(prices))

\* C24: for every non-empty series, including one shorter than the period,
\* calculateBollingerBands places upper and lower at middle plus and minus
\* twice the population standard deviation of exactly the prices it
\* averages (the last min(period, length) prices).
C24_BandsAtTwoStdDev ==
    (ixFn = "bollinger" /\ ixResults # <<>>) =>
        LET bands == ixResults[1]
            averaged == Last(ixPrices, Min(ixPeriod, Len(ixPrices)))
        IN  /\ bands.upper = bands.middle + 2 * PopulationStdDev(averaged)
            /\ bands.lower = bands.middle - 2 * PopulationStdDev(averaged)

\* The same statement for series at least as long as the period; it holds.
C24_FullWindowBands ==
    (ixFn = "bollinger" /\ ixResults # <<>> /\ Len(ixPrices) >= ixPeriod) =>
        LET bands == ixResults[1]
            averaged == Last(ixPrices, ixPeriod)
        IN  /\ bands.upper = bands.middle + 2 * PopulationStdDev(averaged)
            /\ bands.lower = bands.middle - 2 * PopulationStdDev(averaged)

-----------------------------------------------------------------------------
\* Claims about the support and resistance levels.

\* The levels bracket the current price; the levels are in cents and the
\* prices of the call in 1/ixPeriod cents.
LevelsBracketPrice ==
    LET currentPrice == ixPrices[Len(ixPrices)].price
    IN  /\ ixResults[1].supportLevel * ixPeriod <= currentPrice
        /\ currentPrice <= ixResults[1].resistanceLevel * ixPeriod

\* The levels are 0.98 times the minimum low and 1.02 times the maximum
\* high of the last min(20, length) points, to the nearest cent.
LevelsOfLastTwenty ==
    LET n == Len(ixPrices)
        window == {k \in 1..n : k > n - 20}
        minLow == CHOOSE x \in {ixPrices[k].low : k \in window} :
                     \A k \in window : x <= ixPrices[k].low
        maxHigh == CHOOSE x \in {ixPrices[k].high : k \in window} :
                      \A k \in window : x >= ixPrices[k].high
    IN  /\ ixResults[1].supportLevel
              = RoundDiv(98 * minLow, 100 * ixPeriod)
        /\ ixResults[1].resistanceLevel
              = RoundDiv(102 * maxHigh, 100 * ixPeriod)

\* Every price, high and low of the series is a whole number of cents.
WholeCents(historicalData, perCent) ==
    \A k \in 1..Len(historicalData) :
        /\ historicalData[k].price % perCent = 0
        /\ historicalData[k].high % perCent = 0
        /\ historicalData[k].low % perCent = 0

-----------------------------------------------------------------------------
\* Claims about the local fallback of getAIPricePredictions.

\* The series has the shape of a FinancialAPI.searchAsset history.
FinancialAPISeries(historicalData) ==
    /\ historicalData # <<>>
    /\ \A k \in 1..Len(historicalData) :
          DOMAIN historicalData[k] = {"date", "price", "high", "low", "volume"}

\* C26: on a series produced by FinancialAPI.searchAsset the base price of
\* the local fallback equals the last point's price, so every shortTerm
\* predictedPrice lies within 1.5% of that latest price and inside its own
\* [range.low, range.high].
C26_FallbackAnchoredToLatest ==
    (ixFn = "localForecast" /\ FinancialAPISeries(ixPrices)) =>
        \A n \in 1..Len(ixResults) :
            LET entry == ixResults[n]
                latest == 1000 * ixPrices[Len(ixPrices)].price
            IN  /\ entry.basePrice = latest
                /\ Abs(entry.predictedPrice - latest)
                      <= 15 * (latest \div 1000)
                /\ entry.range.low <= entry.predictedPrice
                /\ entry.predictedPrice <= entry.range.high

\* What holds instead: every entry lies within 1.5% of the base price the
\* fallback used and inside its range, and on a FinancialAPI series that
\* base price is 100.
C26_FallbackAnchoredToBase ==
    ixFn = "localForecast" =>
        \A n \in 1..Len(ixResults) :
            LET entry == ixResults[n] IN
            /\ Abs(entry.predictedPrice - entry.basePrice)
                  <= 15 * (entry.basePrice \div 1000)
            /\ entry.range.low <= entry.predictedPrice
            /\ entry.predictedPrice <= entry.range.high
            /\ FinancialAPISeries(ixPrices) => entry.basePrice = 10000000

-----------------------------------------------------------------------------
\* Claims about the edge functions.

\* C27: an edge function replies 200 with success:true only when the
\* upstream call returned a completion; when the upstream response carries
\* no completion (an error payload without choices), both functions reply
\* with status 500 and success:false.
C27_SuccessOnlyWithCompletion ==
    efReply # Null =>
        /\ (efReply.status = 200 /\ efReply.success)
              => efUpstream \in EfCompletions
        /\ efUpstream = "errorPayload"
              => (efReply.status = 500 /\ ~efReply.success)

\* The same for ai-market-analysis alone; it holds.
C27_AnalysisSuccessOnlyWithCompletion ==
    (efFn = "analysis" /\ efReply # Null) =>
        /\ (efReply.status = 200 /\ efReply.success)
              => efUpstream \in EfCompletions
        /\ efUpstream = "errorPayload"
              => (efReply.status = 500 /\ ~efReply.success)

-----------------------------------------------------------------------------
\* Claims about the risk tiers.

\* The tier of the explanation that goes with a riskLevel.
TierOfRisk(riskLevel) ==
    CASE riskLevel = "low" -> "low"
      [] riskLevel = "medium" -> "moderate"
      [] riskLevel = "high" -> "high"

\* C28: riskLevel and the volatility tier named in the explanation agree
\* (low with low, medium with moderate, high with high) for every
\* volatility, including exactly 20 and exactly 40.
C28_RiskMatchesExplanation ==
    (ixFn \in {"tiers", "prediction"}) =>
        \A n \in 1..Len(ixResults) :
            ixResults[n].explanation.volatilityLevel
                = TierOfRisk(ixResults[n].riskLevel)

\* The tiers agree at every volatility other than exactly 20 and 40.
C28_RiskMatchesOffThresholds ==
    (ixFn \in {"tiers", "prediction"}
       /\ (ixFn = "tiers" => ixPeriod \notin {200000, 400000})) =>
        \A n \in 1..Len(ixResults) :
            ixResults[n].explanation.volatilityLevel
                = TierOfRisk(ixResults[n].riskLevel)

-----------------------------------------------------------------------------
\* Claims about the Watchlist page.

\* The predictions generateMockPrediction can return.
MockPredictions ==
    {generateMockPrediction(k1, k2) : k1 \in Draws, k2 \in Draws}

\* C29: handleRefreshPredictions replaces only the prediction of each item:
\* the list after the refresh has the items of the list just before it, in
\* the same order and with their other fields, so an item removed or added
\* during the 2 s wait stays removed or present.
C29_RefreshKeepsList ==
    wlLast.op = "refresh" =>
        /\ Symbols(wlWatchlist) = wlLast.prev
        /\ \A i \in 1..Len(wlWatchlist) :
              /\ DOMAIN wlWatchlist[i] = {"symbol", "prediction"}
              /\ wlWatchlist[i].prediction \in MockPredictions

\* A refresh has completed whose list had changed during the wait.
C29_Witness ==
    /\ wlLast.op = "refresh"
    /\ wlLast.closure # wlLast.prev
    /\ wlLast.prev # <<>>

\* No two items of the list have the same symbol.
NoDuplicateSymbols(symbols) ==
    \A i \in 1..Len(symbols) : \A j \in 1..Len(symbols) :
        symbols[i] = symbols[j] => i = j

\* C30: the watchlist never holds two items with the same symbol, and
\* handleAddAsset refuses a symbol that is in the list.
C30_NoDuplicateSymbols ==
    /\ NoDuplicateSymbols(Symbols(wlWatchlist))
    /\ (wlLast.op = "add"
          /\ \E i \in 1..Len(wlLast.prev) : wlLast.prev[i] = wlLast.symbol)
        => wlLast.refused

\* An add of a symbol that was in the list has been refused.
C30_Witness ==
    /\ wlLast.op = "add" /\ wlLast.refused
    /\ \E i \in 1..Len(wlLast.prev) : wlLast.prev[i] = wlLast.symbol
    /\ Symbols(wlWatchlist) = wlLast.prev

====
